---- MODULE Spec2Model ----
(***************************************************************************)
(* osgrep-core: the model registry (two OnceCell<Mutex<Encoder>> slots),   *)
(* the host-facing operations of lib.rs and the late-interaction scoring   *)
(* and packing functions of colbert_ort.rs.                                *)
(*                                                                         *)
(* Spec      : host threads calling the operations of lib.rs concurrently. *)
(* SpecRerank: the scoring and ranking functions applied to drawn inputs.  *)
(* SpecEmbed : the batch encoding functions applied to drawn inputs.       *)
(***************************************************************************)
EXTENDS Integers, Sequences, FiniteSets, TLC

\* Number of host threads that call into the core concurrently.
NumThreads == 2

Threads == 1..NumThreads

(***************************************************************************)
(* Program constants.                                                      *)
(***************************************************************************)
QUERY_MAXLEN == 32
DOC_MAXLEN == 96
DENSE_HIDDEN == 384
COLBERT_HIDDEN == 48
RERANK_HIDDEN == 48
BATCH_SIZE == 64
QUANT_SCALE == 127

VARIABLES
    DENSE_MODEL,     \* OnceCell slot of the dense encoder
    COLBERT_MODEL,   \* OnceCell slot of the late-interaction encoder
    dense_mutex,     \* Mutex around the dense encoder: holder and poison flag
    colbert_mutex,   \* Mutex around the late-interaction encoder
    aborted,         \* the process was aborted by a panic that could not unwind
    pc,              \* per thread: position inside the current call
    op,              \* per thread: the host-facing operation being executed
    frame,           \* per thread: arguments and locals of the current call
    ret,             \* per thread: what the last call returned to the host
    fn_in,           \* SpecRerank / SpecEmbed: the input of the last application
    fn_out           \* SpecRerank / SpecEmbed: its output

vars == <<DENSE_MODEL, COLBERT_MODEL, dense_mutex, colbert_mutex, aborted,
          pc, op, frame, ret, fn_in, fn_out>>

regvars == <<DENSE_MODEL, COLBERT_MODEL, dense_mutex, colbert_mutex, aborted,
             pc, op, frame, ret>>

fnvars == <<fn_in, fn_out>>

(***************************************************************************)
(* Numbers.  An f32/f64 value x is held as the integer x * FloatDen; a     *)
(* product of two values, and so every dot product and score, is held      *)
(* over FloatDen * FloatDen.  An i8 is held as itself.                     *)
(***************************************************************************)
\* Grid steps per 1/127: fixes the resolution FloatDen of the modelled floats.
GridSteps == 4

FloatDen == QUANT_SCALE * GridSteps

\* the sum of s[lo..hi], halving the range to keep the evaluation shallow
RECURSIVE SumRange(_, _, _)
SumRange(s, lo, hi) ==
    IF lo > hi THEN 0
    ELSE IF lo = hi THEN s[lo]
    ELSE LET mid == (lo + hi) \div 2
         IN  SumRange(s, lo, mid) + SumRange(s, mid + 1, hi)

SumSeq(s) == SumRange(s, 1, Len(s))

Min2(a, b) == IF a <= b THEN a ELSE b

\* F(v), with v evaluated once
With(v, F(_)) == CHOOSE r \in {F(x) : x \in {v}} : TRUE

\* seq[lo..hi) with 0-based bounds, as a Rust slice
Slice(s, lo, hi) == SubSeq(s, lo + 1, hi)

\* f32 / f32 on the grid, rounded toward zero
TruncDiv(a, b) == IF a >= 0 THEN a \div b ELSE -((-a) \div b)

\* `(x as f32) / 127.0` of an i8 x
Dequantize(q) == TruncDiv(q * FloatDen, QUANT_SCALE)

\* f32::NEG_INFINITY: below every dot product the model can form
NEG_INFINITY == -1000000000

(***************************************************************************)
(* The encoders a load produces.  What load_from_hf reads from the hub     *)
(* (vocabulary ids, marker ids, skiplist.json) depends on the repository. *)
(***************************************************************************)
DenseRepos == {"dense-A", "dense-B"}
ColbertRepos == {"colbert-A", "colbert-B"}

NoMarker == -1

DenseEncoderOrt(repo, hidden_size) ==
    [repo |-> repo, hidden_size |-> hidden_size]

\* colbert-A ships [Q]/[D] marker tokens and a skiplist; colbert-B ships neither
ColbertEncoderOrt(repo, hidden_size) ==
    [repo |-> repo,
     hidden_size |-> hidden_size,
     cls_id |-> 1, sep_id |-> 2, mask_id |-> 3, pad_id |-> 0,
     query_marker_id |-> IF repo = "colbert-A" THEN 4 ELSE NoMarker,
     doc_marker_id |-> IF repo = "colbert-A" THEN 5 ELSE NoMarker,
     skip_ids |-> IF repo = "colbert-A" THEN {1, 2, 9} ELSE {}]

(***************************************************************************)
(* Tokenizer and inference session: the external collaborators.  A text is *)
(* held as what the tokenizer makes of it: its subword ids, whether it     *)
(* starts with the literal marker, and whether the tokenizer rejects it.   *)
(***************************************************************************)
Text(ids, marked, bad) == [ids |-> ids, marked |-> marked, bad |-> bad]

\* subword ids of the literal prefixes "[Q] " and "[D] "
QueryPrefixIds == <<20, 21, 22>>
DocPrefixIds == <<20, 23, 22>>

\* tokenizer.encode(text, false), of the text or of the prefixed text
TokenizerEncode(text, prefix) == prefix \o text.ids

\* The hidden state the session puts out for token `id` at position `s`
\* (0-based): one non-zero component, so that its norm is exact.
HiddenRow(id, s, hidden_size) ==
    [k \in 1..hidden_size |->
        IF k = ((id + s) % hidden_size) + 1
        THEN (IF id % 2 = 0 THEN 3 ELSE -2)
        ELSE 0]

ISqrt(n) == CHOOSE r \in 0..n : r * r <= n /\ (r + 1) * (r + 1) > n

\* L2 normalization of one row: val / sqrt(sum_sq).max(1e-12)
L2Normalize(row) ==
    LET sum_sq == SumSeq([k \in 1..Len(row) |-> row[k] * row[k]])
        norm == ISqrt(sum_sq)
    IN  [k \in 1..Len(row) |->
            IF norm = 0 THEN 0 ELSE TruncDiv(row[k] * FloatDen, norm)]

\* the rows lo..hi laid end to end
RECURSIVE FlattenRange(_, _, _)
FlattenRange(rows, lo, hi) ==
    IF lo > hi THEN <<>>
    ELSE IF lo = hi THEN rows[lo]
    ELSE LET mid == (lo + hi) \div 2
         IN  FlattenRange(rows, lo, mid) \o FlattenRange(rows, mid + 1, hi)

Flatten(rows) == FlattenRange(rows, 1, Len(rows))

\* iter().take(n)
Take(s, n) == SubSeq(s, 1, Min2(n, Len(s)))

Ok(value) == [ok |-> TRUE, err |-> "", value |-> value]
Err(err) == [ok |-> FALSE, err |-> err, value |-> <<>>]

(***************************************************************************)
(* ColbertEncoderOrt::encode_query                                          *)
(***************************************************************************)
\* the query sequence built without the [MASK] padding
QueryFinalIds_no_mask_padding(enc, text) ==
    LET prefix == IF enc.query_marker_id = NoMarker /\ ~text.marked
                  THEN QueryPrefixIds ELSE <<>>
        token_ids == TokenizerEncode(text, prefix)
        head == IF enc.query_marker_id # NoMarker
                THEN <<enc.cls_id, enc.query_marker_id>> ELSE <<enc.cls_id>>
        max_tokens == QUERY_MAXLEN - Len(head) - 1
    IN  (head \o Take(token_ids, max_tokens)) \o <<enc.sep_id>>

QueryFinalIds(enc, text) ==
    LET prefix == IF enc.query_marker_id = NoMarker /\ ~text.marked
                  THEN QueryPrefixIds ELSE <<>>
        token_ids == TokenizerEncode(text, prefix)
        head == IF enc.query_marker_id # NoMarker
                THEN <<enc.cls_id, enc.query_marker_id>> ELSE <<enc.cls_id>>
        max_tokens == QUERY_MAXLEN - Len(head) - 1
        body == (head \o Take(token_ids, max_tokens)) \o <<enc.sep_id>>
    IN  body \o [i \in 1..(QUERY_MAXLEN - Len(body)) |-> enc.mask_id]

\* the error encode_query returns, "" when it returns Ok
EncodeQueryError(text, session_ok) ==
    IF text.bad THEN "TokenizationFailed"
    ELSE IF ~session_ok THEN "InferenceFailed"
    ELSE ""

encode_query(enc, text, session_ok) ==
    IF EncodeQueryError(text, session_ok) # ""
    THEN Err(EncodeQueryError(text, session_ok))
    ELSE LET final_ids == QueryFinalIds(enc, text)
             seq_len == Len(final_ids)
             rows == [s \in 1..seq_len |->
                        L2Normalize(HiddenRow(final_ids[s], s - 1, enc.hidden_size))]
         IN  Ok([embeddings |-> Flatten(rows),
                 seq_len |-> seq_len,
                 hidden_size |-> enc.hidden_size])

(***************************************************************************)
(* ColbertEncoderOrt::encode_docs and encode_docs_packed                    *)
(***************************************************************************)
\* the document sequence built without the take(max_tokens)
DocFinalIds_no_truncation(enc, text) ==
    LET prefix == IF enc.doc_marker_id = NoMarker /\ ~text.marked
                  THEN DocPrefixIds ELSE <<>>
        head == IF enc.doc_marker_id # NoMarker
                THEN <<enc.cls_id, enc.doc_marker_id>> ELSE <<enc.cls_id>>
    IN  (head \o TokenizerEncode(text, prefix)) \o <<enc.sep_id>>

DocFinalIds(enc, text) ==
    LET prefix == IF enc.doc_marker_id = NoMarker /\ ~text.marked
                  THEN DocPrefixIds ELSE <<>>
        token_ids == TokenizerEncode(text, prefix)
        head == IF enc.doc_marker_id # NoMarker
                THEN <<enc.cls_id, enc.doc_marker_id>> ELSE <<enc.cls_id>>
        max_tokens == DOC_MAXLEN - Len(head) - 1
    IN  (head \o Take(token_ids, max_tokens)) \o <<enc.sep_id>>

DocEmbedding(enc, final_ids) ==
    LET real_len == Len(final_ids)
        rows == [s \in 1..real_len |->
                    L2Normalize(HiddenRow(final_ids[s], s - 1, enc.hidden_size))]
    IN  [embeddings |-> Flatten(rows),
         token_ids |-> final_ids,
         seq_len |-> real_len,
         hidden_size |-> enc.hidden_size]

\* the error encode_docs returns, "" when it returns Ok
EncodeDocsError(texts, session_ok) ==
    IF texts = <<>> THEN ""
    ELSE IF \E i \in 1..Len(texts) : texts[i].bad THEN "TokenizationFailed"
    ELSE IF ~session_ok THEN "InferenceFailed"
    ELSE ""

encode_docs(enc, texts, session_ok) ==
    IF texts = <<>> THEN Ok(<<>>)
    ELSE IF EncodeDocsError(texts, session_ok) # ""
    THEN Err(EncodeDocsError(texts, session_ok))
    ELSE Ok([b \in 1..Len(texts) |-> DocEmbedding(enc, DocFinalIds(enc, texts[b]))])

EmptyPacked(hidden_size) ==
    [embeddings |-> <<>>, token_ids |-> <<>>, lengths |-> <<>>, offsets |-> <<>>,
     hidden_size |-> hidden_size]

\* the inner loop with the offsets counted in tokens instead of scalars
RECURSIVE ExtendPacked_token_offsets(_, _)
ExtendPacked_token_offsets(acc, doc_embs) ==
    IF doc_embs = <<>> THEN acc
    ELSE LET doc == Head(doc_embs)
         IN  ExtendPacked_token_offsets(
                [acc EXCEPT !.offsets = Append(@, Len(acc.token_ids)),
                            !.lengths = Append(@, doc.seq_len),
                            !.embeddings = @ \o doc.embeddings,
                            !.token_ids = @ \o doc.token_ids],
                Tail(doc_embs))

\* the inner loop of encode_docs_packed: append the documents of one chunk
RECURSIVE ExtendPacked(_, _)
ExtendPacked(acc, doc_embs) ==
    IF doc_embs = <<>> THEN acc
    ELSE LET doc == Head(doc_embs)
         IN  ExtendPacked(
                [acc EXCEPT !.offsets = Append(@, Len(acc.embeddings)),
                            !.lengths = Append(@, doc.seq_len),
                            !.embeddings = @ \o doc.embeddings,
                            !.token_ids = @ \o doc.token_ids],
                Tail(doc_embs))

\* one iteration of `for chunk in texts.chunks(batch_size)`, with its `?`
PackChunk_keeps_partial(enc, acc, chunk, session_ok) ==
    LET doc_embs == encode_docs(enc, chunk, session_ok)
    IN  IF doc_embs.ok THEN Ok(ExtendPacked(acc, doc_embs.value)) ELSE Ok(acc)

PackChunk(enc, acc, chunk, session_ok) ==
    LET doc_embs == encode_docs(enc, chunk, session_ok)
    IN  IF doc_embs.ok THEN Ok(ExtendPacked(acc, doc_embs.value))
        ELSE Err(doc_embs.err)

NumChunks(texts) == (Len(texts) + BATCH_SIZE - 1) \div BATCH_SIZE

\* texts.chunks(batch_size), chunk ci of 1..NumChunks(texts)
Chunk(texts, ci) ==
    Slice(texts, (ci - 1) * BATCH_SIZE, Min2(ci * BATCH_SIZE, Len(texts)))

\* the error encode_docs_packed returns: that of the first chunk that fails
EncodeDocsPackedError(texts, fail_chunk) ==
    LET failing == {ci \in 1..NumChunks(texts) :
                        EncodeDocsError(Chunk(texts, ci), ci # fail_chunk) # ""}
    IN  IF failing = {} THEN ""
        ELSE LET first == CHOOSE ci \in failing : \A cj \in failing : ci <= cj
             IN  EncodeDocsError(Chunk(texts, first), first # fail_chunk)

\* chunks are numbered from 1; the session fails on chunk `fail_chunk` (0: never)
RECURSIVE PackChunks(_, _, _, _, _)
PackChunks(enc, acc, texts, ci, fail_chunk) ==
    IF ci > NumChunks(texts) THEN Ok(acc)
    ELSE LET r == PackChunk(enc, acc, Chunk(texts, ci), ci # fail_chunk)
         IN  IF r.ok THEN PackChunks(enc, r.value, texts, ci + 1, fail_chunk)
             ELSE r

encode_docs_packed(enc, texts, fail_chunk) ==
    IF texts = <<>> THEN Ok(EmptyPacked(enc.hidden_size))
    ELSE PackChunks(enc, EmptyPacked(enc.hidden_size), texts, 1, fail_chunk)

(***************************************************************************)
(* ColbertEncoderOrt::score_packed                                          *)
(***************************************************************************)
\* a[i] of a Rust slice (0-based) is in bounds
InBounds(a, i) == i >= 0 /\ i < Len(a)

At(a, i) == a[i + 1]

\* token_offset: the sum of lengths[..doc_idx]
TokenOffset(packed, doc_idx) == SumSeq(Slice(packed.lengths, 0, doc_idx))

\* the sum over k in 0..n-1 of a[a_off + k] * b[b_off + k], four terms to a
\* step to keep the evaluation shallow
RECURSIVE Dot(_, _, _, _, _)
Dot(a, a_off, b, b_off, n) ==
    IF n = 0 THEN 0
    ELSE IF n >= 4
    THEN Dot(a, a_off, b, b_off, n - 4)
           + a[a_off + n - 3] * b[b_off + n - 3] + a[a_off + n - 2] * b[b_off + n - 2]
           + a[a_off + n - 1] * b[b_off + n - 1] + a[a_off + n] * b[b_off + n]
    ELSE Dot(a, a_off, b, b_off, n - 1) + a[a_off + n] * b[b_off + n]

\* Whether scoring document doc_idx indexes a slice out of bounds (a panic).
ScoreDocPanics(enc, query_emb, packed, doc_idx) ==
    LET doc_len == At(packed.lengths, doc_idx)
        emb_offset == At(packed.offsets, doc_idx)
        token_offset == TokenOffset(packed, doc_idx)
    IN  \/ ~InBounds(packed.offsets, doc_idx)
        \/ /\ query_emb.seq_len > 0
           /\ \E d \in 0..(doc_len - 1) :
                \/ ~InBounds(packed.token_ids, token_offset + d)
                \/ /\ At(packed.token_ids, token_offset + d) \notin enc.skip_ids
                   /\ query_emb.hidden_size > 0
                   /\ ~InBounds(packed.embeddings,
                                emb_offset + d * packed.hidden_size
                                  + query_emb.hidden_size - 1)

\* the token ids looked up by document number instead of by token position
DocPlace_tokens_by_document(packed, doc_idx) ==
    [doc_len |-> At(packed.lengths, doc_idx),
     emb_offset |-> At(packed.offsets, doc_idx),
     token_offset |-> doc_idx]

\* where document doc_idx lies in the packed arrays
DocPlace(packed, doc_idx) ==
    [doc_len |-> At(packed.lengths, doc_idx),
     emb_offset |-> At(packed.offsets, doc_idx),
     token_offset |-> TokenOffset(packed, doc_idx)]

\* the inner loop without the skip-list test
MaxDot_no_skiplist(enc, query_emb, packed, place, q) ==
    LET dots == {Dot(query_emb.embeddings, q * query_emb.hidden_size,
                     packed.embeddings, place.emb_offset + d * packed.hidden_size,
                     query_emb.hidden_size) : d \in 0..(place.doc_len - 1)}
    IN  IF dots = {} THEN NEG_INFINITY
        ELSE CHOOSE m \in dots : \A x \in dots : x <= m

\* the inner loop over the document tokens: the largest dot product of
\* query row q with a token that is not in the skip-list, NEG_INFINITY
\* when every token is skipped
MaxDot(enc, query_emb, packed, place, q) ==
    LET kept == {d \in 0..(place.doc_len - 1) :
                    At(packed.token_ids, place.token_offset + d) \notin enc.skip_ids}
        dots == {Dot(query_emb.embeddings, q * query_emb.hidden_size,
                     packed.embeddings, place.emb_offset + d * packed.hidden_size,
                     query_emb.hidden_size) : d \in kept}
    IN  IF dots = {} THEN NEG_INFINITY
        ELSE CHOOSE m \in dots : \A x \in dots : x <= m

\* the outer loop without the `if max_dot > f32::NEG_INFINITY` guard
TotalScore_adds_sentinel(enc, query_emb, packed, place, seq_len) ==
    SumSeq([r \in 1..seq_len |-> MaxDot(enc, query_emb, packed, place, r - 1)])

\* the outer loop over the query rows: the sum of the row maxima, a row
\* whose max_dot stayed at NEG_INFINITY adding nothing
TotalScore(enc, query_emb, packed, place, seq_len) ==
    SumSeq([r \in 1..seq_len |->
              With(MaxDot(enc, query_emb, packed, place, r - 1),
                   LAMBDA max_dot :
                     IF max_dot > NEG_INFINITY THEN max_dot ELSE 0)])

\* an out-of-range entry scored below every document instead of 0.0
ScoreDoc_out_of_range_last(enc, query_emb, packed, doc_idx) ==
    IF doc_idx >= Len(packed.lengths) THEN NEG_INFINITY
    ELSE With(DocPlace(packed, doc_idx),
              LAMBDA place :
                TotalScore(enc, query_emb, packed, place, query_emb.seq_len))

\* the score pushed for one entry of doc_indices
ScoreDoc(enc, query_emb, packed, doc_idx) ==
    IF doc_idx >= Len(packed.lengths) THEN 0
    ELSE With(DocPlace(packed, doc_idx),
              LAMBDA place :
                TotalScore(enc, query_emb, packed, place, query_emb.seq_len))

\* score_packed_panics tells whether the call panics on an out-of-bounds
\* index; when it does not, score_packed is the vector it returns
score_packed_panics(enc, query_emb, packed, doc_indices) ==
    \E i \in 1..Len(doc_indices) :
        /\ doc_indices[i] < Len(packed.lengths)
        /\ ScoreDocPanics(enc, query_emb, packed, doc_indices[i])

score_packed(enc, query_emb, packed, doc_indices) ==
    [i \in 1..Len(doc_indices) |-> ScoreDoc(enc, query_emb, packed, doc_indices[i])]

(***************************************************************************)
(* Ranking: sort_by(|a, b| b.1.partial_cmp(&a.1)), a stable sort, then the *)
(* first k entries.  An entry is <<index, score>>.                          *)
(***************************************************************************)
\* the comparator: TRUE when `x` must come before `y` (Ordering::Less)
SortsBefore_ascending(x, y) == x[2] < y[2]

SortsBefore(x, y) == x[2] > y[2]

\* stable insertion: x goes before the first entry it sorts before
RECURSIVE InsertStable(_, _)
InsertStable(sorted, x) ==
    IF sorted = <<>> THEN <<x>>
    ELSE IF SortsBefore(x, Head(sorted)) THEN <<x>> \o sorted
    ELSE <<Head(sorted)>> \o InsertStable(Tail(sorted), x)

RECURSIVE SortBy(_)
SortBy(s) ==
    IF s = <<>> THEN <<>>
    ELSE InsertStable(SortBy(SubSeq(s, 1, Len(s) - 1)), s[Len(s)])

Zip(indices, scores) == [i \in 1..Len(indices) |-> <<indices[i], scores[i]>>]

\* std::cmp::min(top_k, indexed_scores.len()) and the slice [..k]
TopK(indexed_scores, top_k) ==
    SubSeq(indexed_scores, 1, Min2(top_k, Len(indexed_scores)))

Column(pairs, c) == [i \in 1..Len(pairs) |-> pairs[i][c]]

(***************************************************************************)
(* rerank_colbert (lib.rs), from the point where it holds the lock         *)
(***************************************************************************)
RerankQuery(query_embeddings) ==
    [embeddings |-> query_embeddings,
     seq_len |-> Len(query_embeddings) \div RERANK_HIDDEN,
     hidden_size |-> RERANK_HIDDEN]

RerankPacked(in) ==
    [embeddings |-> [i \in 1..Len(in.doc_embeddings) |->
                        Dequantize(in.doc_embeddings[i])],
     token_ids |-> in.doc_token_ids,
     lengths |-> in.doc_lengths,
     offsets |-> in.doc_offsets,
     hidden_size |-> RERANK_HIDDEN]

\* whether rerank_colbert panics inside score_packed
RerankPanics(enc, in) ==
    score_packed_panics(enc, RerankQuery(in.query_embeddings), RerankPacked(in),
                        in.candidate_indices)

\* tag "Ok" with RerankResult {indices, scores}, or tag "Panic"
rerank_colbert(enc, in) ==
    LET query_emb == RerankQuery(in.query_embeddings)
        packed == RerankPacked(in)
        indices == in.candidate_indices
    IN  IF RerankPanics(enc, in)
        THEN [tag |-> "Panic", indices |-> <<>>, scores |-> <<>>]
        ELSE LET scores == score_packed(enc, query_emb, packed, indices)
                 indexed_scores == SortBy(Zip(indices, scores))
                 top == TopK(indexed_scores, in.top_k)
             IN  [tag |-> "Ok",
                  indices |-> Column(top, 1),
                  scores |-> Column(top, 2)]

(***************************************************************************)
(* ColbertEncoderOrt::rerank_from_packed                                    *)
(***************************************************************************)
\* the sum of raw_scores, before sorting and truncation
Checksum(raw_scores, top_scores) == SumSeq(raw_scores)

\* tag "Ok" with RerankResultOrt {indices, scores, checksum}, "Err" or "Panic"
RankFromPacked(doc_indices, top_k, raw_scores) ==
    LET indexed_scores == SortBy(Zip(doc_indices, raw_scores))
        top == TopK(indexed_scores, top_k)
    IN  [tag |-> "Ok", err |-> "",
         indices |-> Column(top, 1),
         scores |-> Column(top, 2),
         checksum |-> Checksum(raw_scores, Column(top, 2))]

ScoreFromPacked(enc, query_emb, packed, doc_indices, top_k) ==
    IF score_packed_panics(enc, query_emb, packed, doc_indices)
    THEN [tag |-> "Panic", err |-> "",
          indices |-> <<>>, scores |-> <<>>, checksum |-> 0]
    ELSE With(score_packed(enc, query_emb, packed, doc_indices),
              LAMBDA raw_scores : RankFromPacked(doc_indices, top_k, raw_scores))

rerank_from_packed(enc, query, packed, doc_indices, top_k, session_ok) ==
    IF EncodeQueryError(query, session_ok) # ""
    THEN [tag |-> "Err", err |-> EncodeQueryError(query, session_ok),
          indices |-> <<>>, scores |-> <<>>, checksum |-> 0]
    ELSE With(encode_query(enc, query, session_ok).value,
              LAMBDA query_emb :
                ScoreFromPacked(enc, query_emb, packed, doc_indices, top_k))

(***************************************************************************)
(* DenseEncoderOrt::encode_batch                                            *)
(***************************************************************************)
DENSE_MAX_LEN == 256

\* tokenizer.encode_batch(texts, true): special tokens added, truncated to 256
DenseIds(text) ==
    (<<1>> \o Take(text.ids, DENSE_MAX_LEN - 2)) \o <<2>>

\* what encode_batch returns before it reaches session.run, "" when it gets there
EncodeBatchEarly_no_empty_check(texts) ==
    IF \E i \in 1..Len(texts) : texts[i].bad THEN "TokenizationFailed"
    ELSE ""

EncodeBatchEarly(texts) ==
    IF texts = <<>> THEN "EmptyInput"
    ELSE IF \E i \in 1..Len(texts) : texts[i].bad THEN "TokenizationFailed"
    ELSE ""

\* masked mean pooling of one text's hidden states, then L2 normalization
DensePooled(enc, ids) ==
    LET rows == [j \in 1..Len(ids) |-> HiddenRow(ids[j], j - 1, enc.hidden_size)]
        sum_mask == Len(ids)
        pooled == [k \in 1..enc.hidden_size |->
                    TruncDiv(SumSeq([j \in 1..Len(ids) |-> rows[j][k] * FloatDen]),
                             sum_mask)]
        norm == ISqrt(SumSeq([k \in 1..enc.hidden_size |-> pooled[k] * pooled[k]]))
    IN  [k \in 1..enc.hidden_size |->
            IF norm = 0 THEN 0 ELSE TruncDiv(pooled[k] * FloatDen, norm)]

\* the error encode_batch returns, "" when it returns Ok
EncodeBatchError(texts, session_ok) ==
    IF EncodeBatchEarly(texts) # "" THEN EncodeBatchEarly(texts)
    ELSE IF ~session_ok THEN "InferenceFailed"
    ELSE ""

encode_batch(enc, texts, session_ok) ==
    IF EncodeBatchError(texts, session_ok) # ""
    THEN Err(EncodeBatchError(texts, session_ok))
    ELSE Ok(Flatten([i \in 1..Len(texts) |-> DensePooled(enc, DenseIds(texts[i]))]))

(***************************************************************************)
(* The registry: OnceCell and Mutex, and the arguments the host threads    *)
(* pass in Spec.                                                           *)
(***************************************************************************)
\* OnceCell::get().is_none() / is_some(): a cell is <<>> or <<value>>
OnceCellIsNone_always(cell) == TRUE

OnceCellIsNone(cell) == cell = <<>>

OnceCellIsSome_always(cell) == TRUE

OnceCellIsSome(cell) == cell # <<>>

\* OnceCell::set: Err when the cell is already full, and then no change
OnceCellSet(cell, v) ==
    IF cell = <<>> THEN [cell |-> <<v>>, ok |-> TRUE]
    ELSE [cell |-> cell, ok |-> FALSE]

NoHolder == 0

MutexNew == [holder |-> NoHolder, poisoned |-> FALSE]

\* Mutex::lock blocks until the mutex is free
MutexIsFree_always(m) == TRUE

MutexIsFree(m) == m.holder = NoHolder

\* dropping the guard; a guard dropped while panicking poisons the mutex
MutexUnlock(m, panicking) ==
    [holder |-> NoHolder, poisoned |-> m.poisoned \/ panicking]

T1 == Text(<<7, 8>>, FALSE, FALSE)
TBad == Text(<<7>>, FALSE, TRUE)

\* the repository ids a thread passes to init_models
InitArgs(t) ==
    IF t = 1 THEN <<"dense-A", "colbert-A">> ELSE <<"dense-B", "colbert-B">>

SpecBatches == {<<>>, <<T1>>}

\* one document of two tokens (ids 7 and 9), rows along dimensions 1 and 2
RerankDocEmbeddings ==
    [i \in 1..(2 * RERANK_HIDDEN) |->
        IF i = 1 THEN 127 ELSE IF i = RERANK_HIDDEN + 2 THEN -64 ELSE 0]

RerankQueryRows(n) ==
    [i \in 1..n |-> IF i % RERANK_HIDDEN = 1 THEN FloatDen ELSE 0]

RerankValid ==
    [query_embeddings |-> RerankQueryRows(2 * RERANK_HIDDEN),
     doc_embeddings |-> RerankDocEmbeddings,
     doc_token_ids |-> <<7, 9>>,
     doc_lengths |-> <<2>>,
     doc_offsets |-> <<0>>,
     candidate_indices |-> <<0>>,
     top_k |-> 1]

\* the same index with a length that points past the end of the arrays
RerankMalformed == [RerankValid EXCEPT !.doc_lengths = <<3>>]

SpecRerankInputs == {RerankValid, RerankMalformed}

NullFrame ==
    [dense_repo |-> "", colbert_repo |-> "", texts |-> <<>>, rerank |-> <<>>,
     encoder |-> <<>>]

InitRegistry ==
    /\ DENSE_MODEL = <<>>
    /\ COLBERT_MODEL = <<>>
    /\ dense_mutex = MutexNew
    /\ colbert_mutex = MutexNew
    /\ aborted = FALSE
    /\ pc = [t \in Threads |-> "idle"]
    /\ op = [t \in Threads |-> "none"]
    /\ frame = [t \in Threads |-> NullFrame]
    /\ ret = [t \in Threads |-> "none"]

NotRun == [tag |-> "NotRun"]

Init ==
    /\ InitRegistry
    /\ fn_in = [fn |-> "none"]
    /\ fn_out = NotRun

Goto(t, label) ==
    /\ pc' = [pc EXCEPT ![t] = label]
    /\ UNCHANGED <<op, ret>>

\* the call returns `value` to the host; its locals are dropped
Return(t, value) ==
    /\ pc' = [pc EXCEPT ![t] = "idle"]
    /\ ret' = [ret EXCEPT ![t] = value]
    /\ frame' = [frame EXCEPT ![t] = NullFrame]
    /\ op' = [op EXCEPT ![t] = "none"]

Call(t, name, label, fr) ==
    /\ ~aborted
    /\ pc[t] = "idle"
    /\ pc' = [pc EXCEPT ![t] = label]
    /\ op' = [op EXCEPT ![t] = name]
    /\ frame' = [frame EXCEPT ![t] = fr]
    /\ ret' = [ret EXCEPT ![t] = "none"]
    /\ UNCHANGED <<DENSE_MODEL, COLBERT_MODEL, dense_mutex, colbert_mutex, aborted>>
    /\ UNCHANGED fnvars

At_pc(t, label) == ~aborted /\ pc[t] = label

(***************************************************************************)
(* init_models (lib.rs 37-55)                                              *)
(***************************************************************************)
init_models_call(t, dense_repo, colbert_repo) ==
    Call(t, "init_models", "init_dense_get",
         [NullFrame EXCEPT !.dense_repo = dense_repo,
                           !.colbert_repo = colbert_repo])

\* if DENSE_MODEL.get().is_none()
init_dense_get(t) ==
    /\ At_pc(t, "init_dense_get")
    /\ IF OnceCellIsNone(DENSE_MODEL)
       THEN Goto(t, "init_dense_load")
       ELSE Goto(t, "init_colbert_get")
    /\ UNCHANGED <<DENSE_MODEL, COLBERT_MODEL, dense_mutex, colbert_mutex,
                   aborted, frame>>
    /\ UNCHANGED fnvars

\* a failed dense load passed over instead of returned with `?`
init_dense_load_goes_on(t) ==
    /\ At_pc(t, "init_dense_load")
    /\ \E load_ok \in BOOLEAN :
        IF load_ok
        THEN /\ frame' = [frame EXCEPT ![t].encoder =
                    <<DenseEncoderOrt(frame[t].dense_repo, DENSE_HIDDEN)>>]
             /\ Goto(t, "init_dense_set")
        ELSE Goto(t, "init_colbert_get") /\ UNCHANGED frame
    /\ UNCHANGED <<DENSE_MODEL, COLBERT_MODEL, dense_mutex, colbert_mutex, aborted>>
    /\ UNCHANGED fnvars

\* DenseEncoderOrt::load_from_hf(&dense_repo, 384)?
init_dense_load(t) ==
    /\ At_pc(t, "init_dense_load")
    /\ \E load_ok \in BOOLEAN :
        IF load_ok
        THEN /\ frame' = [frame EXCEPT ![t].encoder =
                    <<DenseEncoderOrt(frame[t].dense_repo, DENSE_HIDDEN)>>]
             /\ Goto(t, "init_dense_set")
        ELSE Return(t, "LoadFailed")
    /\ UNCHANGED <<DENSE_MODEL, COLBERT_MODEL, dense_mutex, colbert_mutex, aborted>>
    /\ UNCHANGED fnvars

\* DENSE_MODEL.set(Mutex::new(encoder))?
init_dense_set(t) ==
    /\ At_pc(t, "init_dense_set")
    /\ LET r == OnceCellSet(DENSE_MODEL, frame[t].encoder[1])
       IN  /\ DENSE_MODEL' = r.cell
           /\ dense_mutex' = IF r.ok THEN MutexNew ELSE dense_mutex
           /\ IF r.ok
              THEN /\ Goto(t, "init_colbert_get")
                   /\ frame' = [frame EXCEPT ![t].encoder = <<>>]
              ELSE Return(t, "AlreadyInitialized")
    /\ UNCHANGED <<COLBERT_MODEL, colbert_mutex, aborted>>
    /\ UNCHANGED fnvars

\* if COLBERT_MODEL.get().is_none(), else Ok(())
init_colbert_get(t) ==
    /\ At_pc(t, "init_colbert_get")
    /\ IF OnceCellIsNone(COLBERT_MODEL)
       THEN Goto(t, "init_colbert_load") /\ UNCHANGED frame
       ELSE Return(t, "Ok")
    /\ UNCHANGED <<DENSE_MODEL, COLBERT_MODEL, dense_mutex, colbert_mutex, aborted>>
    /\ UNCHANGED fnvars

\* ColbertEncoderOrt::load_from_hf(&colbert_repo, 48)?
init_colbert_load(t) ==
    /\ At_pc(t, "init_colbert_load")
    /\ \E load_ok \in BOOLEAN :
        IF load_ok
        THEN /\ frame' = [frame EXCEPT ![t].encoder =
                    <<ColbertEncoderOrt(frame[t].colbert_repo, COLBERT_HIDDEN)>>]
             /\ Goto(t, "init_colbert_set")
        ELSE Return(t, "LoadFailed")
    /\ UNCHANGED <<DENSE_MODEL, COLBERT_MODEL, dense_mutex, colbert_mutex, aborted>>
    /\ UNCHANGED fnvars

\* COLBERT_MODEL.set(Mutex::new(encoder))?; Ok(())
init_colbert_set(t) ==
    /\ At_pc(t, "init_colbert_set")
    /\ LET r == OnceCellSet(COLBERT_MODEL, frame[t].encoder[1])
       IN  /\ COLBERT_MODEL' = r.cell
           /\ colbert_mutex' = IF r.ok THEN MutexNew ELSE colbert_mutex
           /\ Return(t, IF r.ok THEN "Ok" ELSE "AlreadyInitialized")
    /\ UNCHANGED <<DENSE_MODEL, dense_mutex, aborted>>
    /\ UNCHANGED fnvars

\* is_initialized (lib.rs 59-61)
is_initialized == OnceCellIsSome(DENSE_MODEL) /\ OnceCellIsSome(COLBERT_MODEL)

(***************************************************************************)
(* embed_dense (lib.rs 77-91); embed_batch (lib.rs 254-265) runs it first  *)
(***************************************************************************)
embed_dense_call(t, texts) ==
    Call(t, "embed_dense", "dense_get", [NullFrame EXCEPT !.texts = texts])

embed_batch_call(t, texts) ==
    Call(t, "embed_batch", "dense_get", [NullFrame EXCEPT !.texts = texts])

\* DENSE_MODEL.get().ok_or_else(..)?
dense_get(t) ==
    /\ At_pc(t, "dense_get")
    /\ IF OnceCellIsSome(DENSE_MODEL)
       THEN Goto(t, "dense_lock") /\ UNCHANGED frame
       ELSE Return(t, "NotInitialized")
    /\ UNCHANGED <<DENSE_MODEL, COLBERT_MODEL, dense_mutex, colbert_mutex, aborted>>
    /\ UNCHANGED fnvars

\* model.lock().map_err(..)?
dense_lock(t) ==
    /\ At_pc(t, "dense_lock")
    /\ MutexIsFree(dense_mutex)
    /\ IF dense_mutex.poisoned
       THEN Return(t, "LockFailed") /\ UNCHANGED dense_mutex
       ELSE /\ dense_mutex' = [dense_mutex EXCEPT !.holder = t]
            /\ Goto(t, "dense_encode")
            /\ UNCHANGED frame
    /\ UNCHANGED <<DENSE_MODEL, COLBERT_MODEL, colbert_mutex, aborted>>
    /\ UNCHANGED fnvars

\* encode_batch up to session.run: the empty check and the tokenizer
dense_encode(t) ==
    /\ At_pc(t, "dense_encode")
    /\ LET early == EncodeBatchEarly(frame[t].texts)
       IN  IF early # ""
           THEN /\ dense_mutex' = MutexUnlock(dense_mutex, FALSE)
                /\ Return(t, early)
           ELSE /\ Goto(t, "dense_infer")
                /\ UNCHANGED <<dense_mutex, frame>>
    /\ UNCHANGED <<DENSE_MODEL, COLBERT_MODEL, colbert_mutex, aborted>>
    /\ UNCHANGED fnvars

\* session.run, pooling, and the return of embed_dense
dense_infer(t) ==
    /\ At_pc(t, "dense_infer")
    /\ \E session_ok \in BOOLEAN :
        LET err == EncodeBatchError(frame[t].texts, session_ok)
        IN  /\ dense_mutex' = MutexUnlock(dense_mutex, FALSE)
            /\ IF err # "" THEN Return(t, err)
               ELSE IF op[t] = "embed_batch"
               THEN Goto(t, "colbert_get") /\ UNCHANGED frame
               ELSE Return(t, "Ok")
    /\ UNCHANGED <<DENSE_MODEL, COLBERT_MODEL, colbert_mutex, aborted>>
    /\ UNCHANGED fnvars

(***************************************************************************)
(* embed_colbert_packed (lib.rs 112-133)                                   *)
(***************************************************************************)
Quantize_scale_128(x) ==
    LET scaled == TruncDiv(x * 128, FloatDen)
    IN  IF scaled < -128 THEN -128 ELSE IF scaled > 127 THEN 127 ELSE scaled

\* (x * 127.0).clamp(-128.0, 127.0) as i8
Quantize(x) ==
    LET scaled == TruncDiv(x * QUANT_SCALE, FloatDen)
    IN  IF scaled < -128 THEN -128 ELSE IF scaled > 127 THEN 127 ELSE scaled

\* the body of embed_colbert_packed once it holds the encoder
EmbedColbertPacked(enc, texts, fail_chunk) ==
    LET packed == encode_docs_packed(enc, texts, fail_chunk)
    IN  IF ~packed.ok THEN Err(packed.err)
        ELSE Ok([embeddings |-> [i \in 1..Len(packed.value.embeddings) |->
                                    Quantize(packed.value.embeddings[i])],
                 token_ids |-> packed.value.token_ids,
                 lengths |-> packed.value.lengths,
                 offsets |-> packed.value.offsets])

embed_colbert_packed_call(t, texts) ==
    Call(t, "embed_colbert_packed", "colbert_get", [NullFrame EXCEPT !.texts = texts])

colbert_get(t) ==
    /\ At_pc(t, "colbert_get")
    /\ IF OnceCellIsSome(COLBERT_MODEL)
       THEN Goto(t, "colbert_lock") /\ UNCHANGED frame
       ELSE Return(t, "NotInitialized")
    /\ UNCHANGED <<DENSE_MODEL, COLBERT_MODEL, dense_mutex, colbert_mutex, aborted>>
    /\ UNCHANGED fnvars

colbert_lock(t) ==
    /\ At_pc(t, "colbert_lock")
    /\ MutexIsFree(colbert_mutex)
    /\ IF colbert_mutex.poisoned
       THEN Return(t, "LockFailed") /\ UNCHANGED colbert_mutex
       ELSE /\ colbert_mutex' = [colbert_mutex EXCEPT !.holder = t]
            /\ Goto(t, "colbert_encode")
            /\ UNCHANGED frame
    /\ UNCHANGED <<DENSE_MODEL, COLBERT_MODEL, dense_mutex, aborted>>
    /\ UNCHANGED fnvars

colbert_encode(t) ==
    /\ At_pc(t, "colbert_encode")
    /\ \E fail_chunk \in 0..NumChunks(frame[t].texts) :
        LET err == EncodeDocsPackedError(frame[t].texts, fail_chunk)
        IN  /\ colbert_mutex' = MutexUnlock(colbert_mutex, FALSE)
            /\ Return(t, IF err = "" THEN "Ok" ELSE err)
    /\ UNCHANGED <<DENSE_MODEL, COLBERT_MODEL, dense_mutex, aborted>>
    /\ UNCHANGED fnvars

(***************************************************************************)
(* encode_query_colbert (lib.rs 150-161)                                   *)
(***************************************************************************)
encode_query_colbert_call(t, query) ==
    Call(t, "encode_query_colbert", "query_get", [NullFrame EXCEPT !.texts = <<query>>])

query_get(t) ==
    /\ At_pc(t, "query_get")
    /\ IF OnceCellIsSome(COLBERT_MODEL)
       THEN Goto(t, "query_lock") /\ UNCHANGED frame
       ELSE Return(t, "NotInitialized")
    /\ UNCHANGED <<DENSE_MODEL, COLBERT_MODEL, dense_mutex, colbert_mutex, aborted>>
    /\ UNCHANGED fnvars

query_lock(t) ==
    /\ At_pc(t, "query_lock")
    /\ MutexIsFree(colbert_mutex)
    /\ IF colbert_mutex.poisoned
       THEN Return(t, "LockFailed") /\ UNCHANGED colbert_mutex
       ELSE /\ colbert_mutex' = [colbert_mutex EXCEPT !.holder = t]
            /\ Goto(t, "query_encode")
            /\ UNCHANGED frame
    /\ UNCHANGED <<DENSE_MODEL, COLBERT_MODEL, dense_mutex, aborted>>
    /\ UNCHANGED fnvars

query_encode(t) ==
    /\ At_pc(t, "query_encode")
    /\ \E session_ok \in BOOLEAN :
        LET err == EncodeQueryError(frame[t].texts[1], session_ok)
        IN  /\ colbert_mutex' = MutexUnlock(colbert_mutex, FALSE)
            /\ Return(t, IF err = "" THEN "Ok" ELSE err)
    /\ UNCHANGED <<DENSE_MODEL, COLBERT_MODEL, dense_mutex, aborted>>
    /\ UNCHANGED fnvars

(***************************************************************************)
(* rerank_colbert (lib.rs 172-232)                                         *)
(***************************************************************************)
rerank_colbert_call(t, in) ==
    Call(t, "rerank_colbert", "rerank_get", [NullFrame EXCEPT !.rerank = <<in>>])

rerank_get(t) ==
    /\ At_pc(t, "rerank_get")
    /\ IF OnceCellIsSome(COLBERT_MODEL)
       THEN Goto(t, "rerank_lock") /\ UNCHANGED frame
       ELSE Return(t, "NotInitialized")
    /\ UNCHANGED <<DENSE_MODEL, COLBERT_MODEL, dense_mutex, colbert_mutex, aborted>>
    /\ UNCHANGED fnvars

rerank_lock(t) ==
    /\ At_pc(t, "rerank_lock")
    /\ MutexIsFree(colbert_mutex)
    /\ IF colbert_mutex.poisoned
       THEN Return(t, "LockFailed") /\ UNCHANGED colbert_mutex
       ELSE /\ colbert_mutex' = [colbert_mutex EXCEPT !.holder = t]
            /\ Goto(t, "rerank_score")
            /\ UNCHANGED frame
    /\ UNCHANGED <<DENSE_MODEL, COLBERT_MODEL, dense_mutex, aborted>>
    /\ UNCHANGED fnvars

\* score_packed, the sort and the return.  An out-of-bounds index panics
\* while the guard is alive: the unwinding drops the guard, which poisons
\* the mutex, and then either reaches the host as a thrown error or, where
\* it cannot unwind across the boundary, aborts the process.
rerank_score(t) ==
    /\ At_pc(t, "rerank_score")
    /\ IF RerankPanics(COLBERT_MODEL[1], frame[t].rerank[1])
       THEN \E unwinds \in BOOLEAN :
                IF unwinds
                THEN /\ colbert_mutex' = MutexUnlock(colbert_mutex, TRUE)
                     /\ Return(t, "Panic")
                     /\ UNCHANGED aborted
                ELSE /\ aborted' = TRUE
                     /\ UNCHANGED <<colbert_mutex, pc, op, frame, ret>>
       ELSE /\ colbert_mutex' = MutexUnlock(colbert_mutex, FALSE)
            /\ Return(t, "Ok")
            /\ UNCHANGED aborted
    /\ UNCHANGED <<DENSE_MODEL, COLBERT_MODEL, dense_mutex>>
    /\ UNCHANGED fnvars

Next ==
    \E t \in Threads :
        \/ init_models_call(t, InitArgs(t)[1], InitArgs(t)[2])
        \/ init_dense_get(t)
        \/ init_dense_load(t)
        \/ init_dense_set(t)
        \/ init_colbert_get(t)
        \/ init_colbert_load(t)
        \/ init_colbert_set(t)
        \/ \E texts \in SpecBatches : embed_dense_call(t, texts)
        \/ \E texts \in SpecBatches : embed_batch_call(t, texts)
        \/ dense_get(t)
        \/ dense_lock(t)
        \/ dense_encode(t)
        \/ dense_infer(t)
        \/ \E texts \in SpecBatches : embed_colbert_packed_call(t, texts)
        \/ colbert_get(t)
        \/ colbert_lock(t)
        \/ colbert_encode(t)
        \/ encode_query_colbert_call(t, T1)
        \/ query_get(t)
        \/ query_lock(t)
        \/ query_encode(t)
        \/ \E in \in SpecRerankInputs : rerank_colbert_call(t, in)
        \/ rerank_get(t)
        \/ rerank_lock(t)
        \/ rerank_score(t)

Spec == Init /\ [][Next]_vars

(***************************************************************************)
(* Properties of the registry, checked under Spec.                         *)
(***************************************************************************)
DenseInside == {"dense_encode", "dense_infer"}
ColbertInside == {"colbert_encode", "query_encode", "rerank_score"}
GetLabels == {"dense_get", "colbert_get", "query_get", "rerank_get"}
LockLabels == {"dense_lock", "colbert_lock", "query_lock", "rerank_lock"}

Moves(t) == pc'[t] # pc[t]

\* C1: init_models is idempotent.  A populated slot never changes again; a
\* call that finds a slot populated does not load an encoder for it; a call
\* that finds a slot empty goes on to load it, and its set of a still-empty
\* slot stores the encoder of the repository it was given; a call that finds
\* both slots populated returns Ok.
C1_Step ==
    /\ DENSE_MODEL # <<>> => DENSE_MODEL' = DENSE_MODEL
    /\ COLBERT_MODEL # <<>> => COLBERT_MODEL' = COLBERT_MODEL
    /\ \A t \in Threads :
        /\ (pc[t] = "init_dense_get" /\ Moves(t)) =>
              /\ pc'[t] = IF DENSE_MODEL # <<>> THEN "init_colbert_get"
                          ELSE "init_dense_load"
              /\ UNCHANGED <<DENSE_MODEL, COLBERT_MODEL, dense_mutex, colbert_mutex>>
        /\ (pc[t] = "init_colbert_get" /\ Moves(t)) =>
              /\ IF COLBERT_MODEL # <<>>
                 THEN pc'[t] = "idle" /\ ret'[t] = "Ok"
                 ELSE pc'[t] = "init_colbert_load"
              /\ UNCHANGED <<DENSE_MODEL, COLBERT_MODEL, dense_mutex, colbert_mutex>>
        /\ (pc[t] = "init_dense_set" /\ Moves(t) /\ DENSE_MODEL = <<>>) =>
              /\ DENSE_MODEL' = <<DenseEncoderOrt(frame[t].dense_repo, DENSE_HIDDEN)>>
              /\ pc'[t] = "init_colbert_get"
        /\ (pc[t] = "init_colbert_set" /\ Moves(t) /\ COLBERT_MODEL = <<>>) =>
              /\ COLBERT_MODEL' =
                    <<ColbertEncoderOrt(frame[t].colbert_repo, COLBERT_HIDDEN)>>
              /\ ret'[t] = "Ok"

C1_InitIdempotent == [][C1_Step]_vars

\* C1 witness: thread 1 populated the dense slot and failed to load the other
\* encoder; the later call of thread 2 left the dense slot alone, populated
\* the late-interaction slot from its own repository and returned Ok.
C1_Witness ==
    /\ DENSE_MODEL # <<>> /\ DENSE_MODEL[1].repo = "dense-A"
    /\ COLBERT_MODEL # <<>> /\ COLBERT_MODEL[1].repo = "colbert-B"
    /\ ret[1] = "LoadFailed"
    /\ pc[2] = "idle" /\ ret[2] = "Ok"

\* C2: every init_models call whose loads succeed returns Ok, however the
\* calls interleave: a call that returns does so with Ok or with the failure
\* of one of its own loads, and no slot is ever overwritten.
C2_Step ==
    /\ DENSE_MODEL # <<>> => DENSE_MODEL' = DENSE_MODEL
    /\ COLBERT_MODEL # <<>> => COLBERT_MODEL' = COLBERT_MODEL
    /\ \A t \in Threads :
        (op[t] = "init_models" /\ pc'[t] = "idle" /\ Moves(t)) =>
            ret'[t] \in {"Ok", "LoadFailed"}

C2_ConcurrentInitAllOk == [][C2_Step]_vars

\* C3: at most one thread is inside each encoder.
C3_MutualExclusion ==
    /\ Cardinality({t \in Threads : pc[t] \in DenseInside}) <= 1
    /\ Cardinality({t \in Threads : pc[t] \in ColbertInside}) <= 1
    /\ \A t \in Threads :
        /\ pc[t] \in DenseInside => dense_mutex.holder = t
        /\ pc[t] \in ColbertInside => colbert_mutex.holder = t

\* C3 witness: one thread scores inside the late-interaction encoder while
\* another waits for the same lock.
C3_Witness ==
    /\ pc[1] = "rerank_score"
    /\ pc[2] = "query_lock"

SlotOf(label) == IF label = "dense_get" THEN DENSE_MODEL ELSE COLBERT_MODEL

\* C4: an operation that finds its slot empty returns NotInitialized as a
\* value, takes no lock and leaves both slots as they were.
C4_Step ==
    \A t \in Threads :
        (pc[t] \in GetLabels /\ SlotOf(pc[t]) = <<>> /\ Moves(t)) =>
            /\ pc'[t] = "idle"
            /\ ret'[t] = "NotInitialized"
            /\ UNCHANGED <<DENSE_MODEL, COLBERT_MODEL, dense_mutex, colbert_mutex,
                           aborted>>

C4_NotInitialized == [][C4_Step]_vars

\* C4 witness: a late-interaction operation was refused while the dense slot
\* was already populated and the late-interaction slot still empty.
C4_Witness ==
    /\ DENSE_MODEL # <<>>
    /\ COLBERT_MODEL = <<>>
    /\ colbert_mutex = MutexNew
    /\ \E t \in Threads : pc[t] = "idle" /\ ret[t] = "NotInitialized"

\* C5: embed_dense on an empty list returns EmptyInput from inside the lock
\* without reaching the inference run, and the dense lock is free afterwards.
C5_Step ==
    \A t \in Threads :
        (pc[t] = "dense_encode" /\ op[t] = "embed_dense"
            /\ frame[t].texts = <<>> /\ Moves(t)) =>
            /\ pc'[t] = "idle"
            /\ ret'[t] = "EmptyInput"
            /\ dense_mutex' = MutexNew

C5_NoInferenceOnEmpty ==
    \A t \in Threads : pc[t] = "dense_infer" => frame[t].texts # <<>>

C5_EmptyInput == [][C5_Step]_vars /\ []C5_NoInferenceOnEmpty

\* C5 witness: the call returned EmptyInput and the dense lock is free.
C5_Witness ==
    /\ DENSE_MODEL # <<>>
    /\ dense_mutex = MutexNew
    /\ \E t \in Threads : pc[t] = "idle" /\ ret[t] = "EmptyInput"

\* C7: whatever calls have ended before, the process is alive, the locks are
\* usable and no call is refused a lock.
C7_LockReleasedAfterAnyCall ==
    /\ ~aborted
    /\ ~dense_mutex.poisoned
    /\ ~colbert_mutex.poisoned
    /\ \A t \in Threads : ret[t] # "LockFailed"

(***************************************************************************)
(* SpecRerank: rerank_colbert and rerank_from_packed applied to drawn      *)
(* inputs.  fn_in is the call, fn_out its result (NotRun before it ran).   *)
(***************************************************************************)
\* the longest candidate list drawn
MaxCandidates == 3

\* a stored document token: its id and its quantized row, `val` along `dim`
Tok(id, dim, val) == [id |-> id, dim |-> dim, val |-> val]

TokRow(tok) == [k \in 1..RERANK_HIDDEN |-> IF k = tok.dim THEN tok.val ELSE 0]

\* the packed arrays a host stores for `docs`, each a sequence of tokens
IndexOf(docs) ==
    [doc_embeddings |->
        Flatten([i \in 1..Len(docs) |->
            Flatten([j \in 1..Len(docs[i]) |-> TokRow(docs[i][j])])]),
     doc_token_ids |->
        Flatten([i \in 1..Len(docs) |->
            [j \in 1..Len(docs[i]) |-> docs[i][j].id]]),
     doc_lengths |-> [i \in 1..Len(docs) |-> Len(docs[i])],
     doc_offsets |->
        [i \in 1..Len(docs) |->
            RERANK_HIDDEN * SumSeq([j \in 1..(i - 1) |-> Len(docs[j])])]]

\* 0: a word; 1: the same word and a punctuation token (id 9); 2: a word
\* pointing the other way; 3: nothing but CLS and SEP
StoredDocs ==
    << <<Tok(1, 5, 127), Tok(7, 1, 127), Tok(2, 6, 127)>>,
       <<Tok(1, 5, 127), Tok(7, 1, 127), Tok(9, 2, 100), Tok(2, 6, 127)>>,
       <<Tok(1, 5, 127), Tok(8, 1, -127), Tok(2, 6, -127)>>,
       <<Tok(1, 5, 127), Tok(2, 6, 127)>> >>

StoredIndex == IndexOf(StoredDocs)

\* n scalars: row q points along dimension 1 (q even) or 2 (q odd)
QueryScalars(n) ==
    [i \in 1..n |->
        LET q == (i - 1) \div RERANK_HIDDEN
            k == ((i - 1) % RERANK_HIDDEN) + 1
        IN  IF k = (q % 2) + 1 THEN FloatDen ELSE 0]

\* n scalars: row q points along dimension 5 (q even) or 6 (q odd), the
\* dimensions of the CLS and SEP rows of StoredDocs
QueryOnMarkers(n) ==
    [i \in 1..n |->
        LET q == (i - 1) \div RERANK_HIDDEN
            k == ((i - 1) % RERANK_HIDDEN) + 1
        IN  IF k = (q % 2) + 5 THEN FloatDen ELSE 0]

RECURSIVE SeqsUpTo(_, _)
SeqsUpTo(S, n) ==
    IF n = 0 THEN {<<>>}
    ELSE LET shorter == SeqsUpTo(S, n - 1)
         IN  shorter \cup {Append(q, x) : q \in shorter, x \in S}

\* top_k below, at and above the number of candidates
TopKs == {0, 2, MaxCandidates + 1}

CandidateLists == SeqsUpTo(0..Len(StoredDocs), MaxCandidates)

RerankCall(repo, query_embeddings, index, candidate_indices, top_k) ==
    [fn |-> "rerank_colbert",
     enc |-> ColbertEncoderOrt(repo, COLBERT_HIDDEN),
     in |-> [query_embeddings |-> query_embeddings,
             doc_embeddings |-> index.doc_embeddings,
             doc_token_ids |-> index.doc_token_ids,
             doc_lengths |-> index.doc_lengths,
             doc_offsets |-> index.doc_offsets,
             candidate_indices |-> candidate_indices,
             top_k |-> top_k]]

\* query lengths other than 32 * 48: empty, short of one row, one row and two
\* more scalars, two rows
OddQueryLengths ==
    {0, RERANK_HIDDEN - 1, RERANK_HIDDEN + 2, 2 * RERANK_HIDDEN}

\* indexes whose side arrays point past the end of the stored arrays
MalformedIndexes ==
    {[StoredIndex EXCEPT !.doc_lengths[4] = 3],
     [StoredIndex EXCEPT !.doc_offsets[2] = 20 * RERANK_HIDDEN],
     [StoredIndex EXCEPT !.doc_offsets = <<0>>]}

RerankCalls ==
    {RerankCall(repo, QueryScalars(2 * RERANK_HIDDEN), StoredIndex, c, k) :
        repo \in ColbertRepos, c \in CandidateLists, k \in TopKs}
    \cup
    {RerankCall(repo, QueryScalars(QUERY_MAXLEN * RERANK_HIDDEN), StoredIndex, c, k) :
        repo \in ColbertRepos,
        c \in {<<0, 1, 2>>, <<2, 1, 0>>, <<2, 4, 3>>, <<1, 0>>},
        k \in {0, 2, 5}}
    \cup
    {RerankCall(repo, QueryOnMarkers(n * RERANK_HIDDEN), StoredIndex, c, k) :
        repo \in ColbertRepos, n \in {1, 2, QUERY_MAXLEN},
        c \in {<<3>>, <<3, 0>>, <<0, 3, 1>>, <<2, 3, 3>>}, k \in {1, 3}}
    \cup
    {RerankCall("colbert-A", QueryScalars(n), StoredIndex, c, 2) :
        n \in OddQueryLengths, c \in {<<0, 1, 2>>, <<2, 4, 3>>}}
    \cup
    {RerankCall("colbert-B", QueryScalars(n), ix, c, 2) :
        n \in {0, 2 * RERANK_HIDDEN}, ix \in MalformedIndexes,
        c \in {<<0>>, <<3, 1>>, <<4>>}}

\* the documents and the query of the rerank_from_packed calls
T2 == Text(<<8, 7, 10>>, FALSE, FALSE)
TEmpty == Text(<<>>, FALSE, FALSE)

PackedTexts == <<T1, T2, TEmpty>>

\* a hidden size narrower than the 48 the addon loads with
NarrowHidden == 4

HiddenSizes == {NarrowHidden, COLBERT_HIDDEN}

\* the packed index encode_docs_packed builds of PackedTexts
PackedOf(repo, hidden_size) ==
    encode_docs_packed(ColbertEncoderOrt(repo, hidden_size), PackedTexts, 0).value

PackedIndexes ==
    [repo \in ColbertRepos |-> [h \in HiddenSizes |-> PackedOf(repo, h)]]

FromPackedCall(repo, hidden_size, query, doc_indices, top_k, session_ok) ==
    [fn |-> "rerank_from_packed",
     enc |-> ColbertEncoderOrt(repo, hidden_size),
     query |-> query,
     packed |-> PackedIndexes[repo][hidden_size],
     doc_indices |-> doc_indices,
     top_k |-> top_k,
     session_ok |-> session_ok]

FromPackedCalls ==
    {FromPackedCall(repo, NarrowHidden, T1, c, k, TRUE) :
        repo \in ColbertRepos,
        c \in SeqsUpTo(0..Len(PackedTexts), MaxCandidates),
        k \in TopKs}
    \cup
    {FromPackedCall(repo, COLBERT_HIDDEN, q, <<1, 3, 0, 2>>, k, ok) :
        repo \in ColbertRepos, q \in {T1, TBad}, k \in {0, 2, 5},
        ok \in BOOLEAN}

InitRerank ==
    /\ InitRegistry
    /\ fn_in \in RerankCalls \cup FromPackedCalls
    /\ fn_out = NotRun

apply_rerank_colbert ==
    /\ fn_in.fn = "rerank_colbert"
    /\ fn_out = NotRun
    /\ fn_out' = rerank_colbert(fn_in.enc, fn_in.in)
    /\ UNCHANGED fn_in
    /\ UNCHANGED regvars

apply_rerank_from_packed ==
    /\ fn_in.fn = "rerank_from_packed"
    /\ fn_out = NotRun
    /\ fn_out' = rerank_from_packed(fn_in.enc, fn_in.query, fn_in.packed,
                                    fn_in.doc_indices, fn_in.top_k, fn_in.session_ok)
    /\ UNCHANGED fn_in
    /\ UNCHANGED regvars

NextRerank ==
    \/ apply_rerank_colbert
    \/ apply_rerank_from_packed

SpecRerank == InitRerank /\ [][NextRerank]_vars

(***************************************************************************)
(* Properties of scoring and ranking, checked under SpecRerank.            *)
(***************************************************************************)
Ran(fn) == fn_in.fn = fn /\ fn_out.tag # "NotRun"

\* what the call in fn_in ranks: its candidates, and the query and index
\* they are scored against
RankedCandidates ==
    IF fn_in.fn = "rerank_colbert" THEN fn_in.in.candidate_indices
    ELSE fn_in.doc_indices

RankedQuery ==
    IF fn_in.fn = "rerank_colbert" THEN RerankQuery(fn_in.in.query_embeddings)
    ELSE encode_query(fn_in.enc, fn_in.query, fn_in.session_ok).value

RankedIndex ==
    IF fn_in.fn = "rerank_colbert" THEN RerankPacked(fn_in.in) ELSE fn_in.packed

RankedTopK ==
    IF fn_in.fn = "rerank_colbert" THEN fn_in.in.top_k ELSE fn_in.top_k

\* the scores of the candidates, in candidate order
CandidateScores ==
    score_packed(fn_in.enc, RankedQuery, RankedIndex, RankedCandidates)

\* the place of the j-th candidate in the stable descending order: after
\* every candidate that scores higher and every earlier one that scores the same
StablePlace(scores, j) ==
    1 + Cardinality({i \in 1..Len(scores) : scores[i] > scores[j]})
      + Cardinality({i \in 1..(j - 1) : scores[i] = scores[j]})

\* `out` holds the first min(top_k, M) entries of the stable descending
\* order of `candidates` by `scores`
IsStableTopK(out, candidates, scores, top_k) ==
    LET M == Len(candidates)
        k == IF top_k <= M THEN top_k ELSE M
    IN  /\ Len(out.indices) = k
        /\ Len(out.scores) = k
        /\ \A i \in 1..(k - 1) : out.scores[i] >= out.scores[i + 1]
        /\ \A j \in 1..M :
            StablePlace(scores, j) <= k =>
                /\ out.indices[StablePlace(scores, j)] = candidates[j]
                /\ out.scores[StablePlace(scores, j)] = scores[j]

\* C6: a query_embeddings array that is not 32 rows of 48 scalars makes
\* rerank_colbert return a ShapeMismatch error instead of a ranking.
C6_ShapeMismatchSurfaced ==
    (Ran("rerank_colbert")
        /\ Len(fn_in.in.query_embeddings) # QUERY_MAXLEN * RERANK_HIDDEN)
    => fn_out.tag = "ShapeMismatch"

\* C8: a ranking that is returned holds the first min(top_k, M) entries of the
\* stable descending sort of the M candidates: that many entries, scores
\* non-increasing, each candidate with its own score at its stable place.
C8_StableTopK ==
    (fn_out.tag = "Ok") =>
        With(CandidateScores,
             LAMBDA scores :
                IsStableTopK(fn_out, RankedCandidates, scores, RankedTopK))

\* C8 witness: a ranking of three candidates against a 32-row query, cut to
\* two, in which two candidates tie and the tie is not in index order.
C8_Witness ==
    /\ Ran("rerank_colbert")
    /\ fn_out.tag = "Ok"
    /\ Len(fn_in.in.query_embeddings) = QUERY_MAXLEN * RERANK_HIDDEN
    /\ fn_in.in.candidate_indices = <<2, 1, 0>>
    /\ fn_in.in.top_k = 2
    /\ fn_out.indices = <<1, 0>>
    /\ fn_out.scores[1] = fn_out.scores[2]

\* rerank_from_packed sums the scores of all candidates before it sorts and
\* truncates, so its checksum is that of the same call with top_k = 0
ChecksumBeforeTruncation ==
    (Ran("rerank_from_packed") /\ fn_out.tag = "Ok") =>
        /\ fn_out.checksum = SumSeq(CandidateScores)
        /\ fn_out.checksum =
              rerank_from_packed(fn_in.enc, fn_in.query, fn_in.packed,
                                 fn_in.doc_indices, 0, fn_in.session_ok).checksum

MaxSmallBatch == 3

\* n texts, the one at position `bad` (if any) rejected by the tokenizer
Batch(n, bad) ==
    [i \in 1..n |-> IF i = bad THEN TBad ELSE IF i % 2 = 0 THEN T1 ELSE T2]

\* batch sizes: small ones, one full chunk, one chunk and a text, two chunks
\* and a text
SmallSizes == 0..MaxSmallBatch
ChunkedSizes == {BATCH_SIZE, BATCH_SIZE + 1, 2 * BATCH_SIZE + 1}

\* positions of the rejected text: none, first, last, and around chunk ends
BadPositions(n) ==
    {0} \cup ({1, BATCH_SIZE, BATCH_SIZE + 1, 2 * BATCH_SIZE, n} \cap 1..n)

NumChunksOf(n) == (n + BATCH_SIZE - 1) \div BATCH_SIZE

PackedCall(repo, hidden_size, n, bad, fail_chunk) ==
    [fn |-> "embed_colbert_packed",
     enc |-> ColbertEncoderOrt(repo, hidden_size),
     texts |-> Batch(n, bad),
     fail_chunk |-> fail_chunk]

BatchCall(dense_repo, repo, n, bad, dense_ok, fail_chunk) ==
    [fn |-> "embed_batch",
     dense_enc |-> DenseEncoderOrt(dense_repo, DENSE_HIDDEN),
     enc |-> ColbertEncoderOrt(repo, COLBERT_HIDDEN),
     texts |-> Batch(n, bad),
     dense_ok |-> dense_ok,
     fail_chunk |-> fail_chunk]

\* a text of n subwords, starting with the literal marker or not
LongText(n, marked) == Text([i \in 1..n |-> 10 + (i % 7)], marked, FALSE)

\* subword counts: none, one, around the budget of a document, far beyond it
DocSubwordCounts ==
    {0, 1, 2 * DOC_MAXLEN} \cup (DOC_MAXLEN - 6)..(DOC_MAXLEN + 1)

LongDocCalls ==
    {[fn |-> "embed_colbert_packed",
      enc |-> ColbertEncoderOrt(repo, NarrowHidden),
      texts |-> <<T1, LongText(n, marked)>>,
      fail_chunk |-> 0] :
        repo \in ColbertRepos, n \in DocSubwordCounts, marked \in BOOLEAN}

EmbedCalls ==
    LongDocCalls
    \cup
    {PackedCall(repo, h, n, bad, fc) :
        repo \in ColbertRepos, h \in HiddenSizes,
        n \in SmallSizes, bad \in 0..MaxSmallBatch, fc \in 0..1}
    \cup
    UNION {{PackedCall(repo, NarrowHidden, n, bad, fc) :
                bad \in BadPositions(n), fc \in 0..NumChunksOf(n)} :
            repo \in ColbertRepos, n \in ChunkedSizes}
    \cup
    {BatchCall(dense_repo, repo, n, bad, dense_ok, fc) :
        dense_repo \in DenseRepos, repo \in ColbertRepos,
        n \in SmallSizes, bad \in 0..1, dense_ok \in BOOLEAN, fc \in 0..1}
    \cup
    {BatchCall("dense-A", "colbert-A", BATCH_SIZE + 1, bad, TRUE, fc) :
        bad \in {0, BATCH_SIZE + 1}, fc \in {0, 2}}

\* a Result as the caller sees it
Outcome(r) ==
    [tag |-> IF r.ok THEN "Ok" ELSE "Err", err |-> r.err, value |-> r.value]

\* the body of embed_batch once both encoders are held
EmbedBatch(dense_enc, enc, texts, dense_ok, fail_chunk) ==
    LET dense == encode_batch(dense_enc, texts, dense_ok)
    IN  IF ~dense.ok THEN Err(dense.err)
        ELSE LET colbert == EmbedColbertPacked(enc, texts, fail_chunk)
             IN  IF ~colbert.ok THEN Err(colbert.err)
                 ELSE Ok([dense |-> dense.value,
                          colbert_embeddings |-> colbert.value.embeddings,
                          colbert_token_ids |-> colbert.value.token_ids,
                          colbert_lengths |-> colbert.value.lengths,
                          colbert_offsets |-> colbert.value.offsets])

InitEmbed ==
    /\ InitRegistry
    /\ fn_in \in EmbedCalls
    /\ fn_out = NotRun

apply_embed_colbert_packed ==
    /\ fn_in.fn = "embed_colbert_packed"
    /\ fn_out = NotRun
    /\ fn_out' = Outcome(EmbedColbertPacked(fn_in.enc, fn_in.texts, fn_in.fail_chunk))
    /\ UNCHANGED fn_in
    /\ UNCHANGED regvars

apply_embed_batch ==
    /\ fn_in.fn = "embed_batch"
    /\ fn_out = NotRun
    /\ fn_out' = Outcome(EmbedBatch(fn_in.dense_enc, fn_in.enc, fn_in.texts,
                                    fn_in.dense_ok, fn_in.fail_chunk))
    /\ UNCHANGED fn_in
    /\ UNCHANGED regvars

NextEmbed ==
    \/ apply_embed_colbert_packed
    \/ apply_embed_batch

SpecEmbed == InitEmbed /\ [][NextEmbed]_vars

(***************************************************************************)
(* Properties of the embedding calls, checked under SpecEmbed.             *)
(***************************************************************************)
\* the call in fn_in meets a failure: a text the tokenizer rejects, a chunk
\* the session fails on, or (embed_batch) a failing or empty dense half
SomeItemFails ==
    \/ \E i \in 1..Len(fn_in.texts) : fn_in.texts[i].bad
    \/ fn_in.fail_chunk \in 1..NumChunks(fn_in.texts)
    \/ fn_in.fn = "embed_batch" /\ (~fn_in.dense_ok \/ fn_in.texts = <<>>)

\* the number of texts an Ok result covers
TextsCovered ==
    IF fn_in.fn = "embed_batch" THEN Len(fn_out.value.colbert_lengths)
    ELSE Len(fn_out.value.lengths)

\* C10: a failure in any item fails the whole batch: the call returns an
\* error and nothing else, neither partial packed arrays nor the dense half;
\* a result that is returned covers every text of the batch.
C10_WholeBatchFails ==
    (fn_out.tag # "NotRun") =>
        /\ SomeItemFails => (fn_out.tag = "Err" /\ fn_out.value = <<>>)
        /\ fn_out.tag = "Ok" => TextsCovered = Len(fn_in.texts)

\* C10 witness: embed_colbert_packed of more than one chunk, whose first
\* chunk encodes and whose second chunk fails in the session.
C10_Witness ==
    /\ Ran("embed_colbert_packed")
    /\ Len(fn_in.texts) > BATCH_SIZE
    /\ \A i \in 1..Len(fn_in.texts) : ~fn_in.texts[i].bad
    /\ fn_in.fail_chunk = 2
    /\ fn_out.tag = "Err"
    /\ fn_out.err = "InferenceFailed"

\* document doc_idx is one of the index and lies inside its arrays
DocInside(packed, doc_idx) ==
    /\ doc_idx < Len(packed.lengths)
    /\ doc_idx < Len(packed.offsets)
    /\ TokenOffset(packed, doc_idx) + At(packed.lengths, doc_idx)
          <= Len(packed.token_ids)
    /\ At(packed.offsets, doc_idx) + At(packed.lengths, doc_idx) * packed.hidden_size
          <= Len(packed.embeddings)

\* the token ids of document doc_idx of a packed index
DocTokenIds(packed, doc_idx) ==
    [d \in 1..At(packed.lengths, doc_idx) |->
        At(packed.token_ids, TokenOffset(packed, doc_idx) + d - 1)]

AllSkipped(enc, packed, doc_idx) ==
    /\ DocInside(packed, doc_idx)
    /\ \A d \in 1..At(packed.lengths, doc_idx) :
          DocTokenIds(packed, doc_idx)[d] \in enc.skip_ids

\* C11: a document all of whose token ids are in the skip-list scores exactly
\* 0 against every query, and the call that ranks it returns a ranking: every
\* returned entry for such a document carries the score 0, and so does its
\* entry in the scores before ranking.
C11_AllSkippedScoresZero ==
    (fn_out.tag = "Ok") =>
        With(RankedIndex,
             LAMBDA packed :
                /\ \A i \in 1..Len(fn_out.indices) :
                      AllSkipped(fn_in.enc, packed, fn_out.indices[i])
                          => fn_out.scores[i] = 0
                /\ \A j \in 1..Len(RankedCandidates) :
                      AllSkipped(fn_in.enc, packed, RankedCandidates[j])
                          => ScoreDoc(fn_in.enc, RankedQuery, packed,
                                      RankedCandidates[j]) = 0)

\* C11 witness: a 32-row query whose rows point along the rows of CLS and SEP,
\* a document of CLS and SEP alone, both ids in the skip-list: returned with
\* score 0.
C11_Witness ==
    /\ Ran("rerank_colbert")
    /\ fn_out.tag = "Ok"
    /\ Len(fn_in.in.query_embeddings) = QUERY_MAXLEN * RERANK_HIDDEN
    /\ fn_in.in.query_embeddings[5] # 0
    /\ fn_in.in.candidate_indices = <<3>>
    /\ AllSkipped(fn_in.enc, RankedIndex, 3)
    /\ fn_out.indices = <<3>>
    /\ fn_out.scores = <<0>>

\* the embedding row of token d (0-based) of document doc_idx
DocRow(packed, doc_idx, d) ==
    Slice(packed.embeddings,
          At(packed.offsets, doc_idx) + d * packed.hidden_size,
          At(packed.offsets, doc_idx) + (d + 1) * packed.hidden_size)

\* the tokens of document doc_idx that are not in the skip-list, in order,
\* each with its id and its embedding row
NonSkipTokens(enc, packed, doc_idx) ==
    LET ids == DocTokenIds(packed, doc_idx)
        tokens == [d \in 1..Len(ids) |-> <<ids[d], DocRow(packed, doc_idx, d - 1)>>]
    IN  SelectSeq(tokens, LAMBDA tok : tok[1] \notin enc.skip_ids)

SameButSkipped(enc, packed, a, b) ==
    /\ DocInside(packed, a)
    /\ DocInside(packed, b)
    /\ NonSkipTokens(enc, packed, a) = NonSkipTokens(enc, packed, b)

\* C12: two documents of a packed index whose non-skip tokens (ids and rows)
\* are the same sequence get the same score against the query, whatever
\* skip-listed tokens either of them holds besides.
C12_SkippedTokensInvisible ==
    (fn_out.tag = "Ok") =>
        With(<<CandidateScores, RankedIndex>>,
             LAMBDA sp :
                \A i, j \in 1..Len(RankedCandidates) :
                    \/ sp[1][i] = sp[1][j]
                    \/ ~SameButSkipped(fn_in.enc, sp[2],
                                       RankedCandidates[i], RankedCandidates[j]))

\* C12 witness: document 1 is document 0 with one more token, whose id is in
\* the skip-list and whose row the odd query rows point along; both are
\* returned with the same non-zero score.
C12_Witness ==
    /\ Ran("rerank_colbert")
    /\ fn_out.tag = "Ok"
    /\ fn_in.in.candidate_indices = <<1, 0>>
    /\ fn_in.in.query_embeddings[RERANK_HIDDEN + 2] # 0
    /\ At(fn_in.in.doc_lengths, 1) = At(fn_in.in.doc_lengths, 0) + 1
    /\ SameButSkipped(fn_in.enc, RankedIndex, 0, 1)
    /\ Len(fn_out.scores) = 2
    /\ fn_out.scores[1] = fn_out.scores[2]
    /\ fn_out.scores[1] # 0

\* the packed arrays an embedding call returned
PackedOut ==
    IF fn_in.fn = "embed_batch"
    THEN [embeddings |-> fn_out.value.colbert_embeddings,
          token_ids |-> fn_out.value.colbert_token_ids,
          lengths |-> fn_out.value.colbert_lengths,
          offsets |-> fn_out.value.colbert_offsets]
    ELSE fn_out.value

IsPackedIndex(packed, hidden_size, N) ==
    /\ Len(packed.lengths) = N
    /\ Len(packed.offsets) = N
    /\ N > 0 => packed.offsets[1] = 0
    /\ \A i \in 1..N :
          /\ packed.offsets[i]
                = hidden_size * SumSeq(SubSeq(packed.lengths, 1, i - 1))
          /\ packed.offsets[i] + packed.lengths[i] * hidden_size
                <= Len(packed.embeddings)
    /\ \A i \in 1..(N - 1) : packed.offsets[i] < packed.offsets[i + 1]
    /\ SumSeq(packed.lengths) = Len(packed.token_ids)

\* C13: the packed arrays returned for N documents have N lengths and N
\* offsets, offsets[0] = 0, every offset is hidden_size times the sum of the
\* lengths before it (so the offsets strictly increase), every document lies
\* inside the embeddings, and the lengths add up to the number of token ids.
C13_PackedInvariants ==
    (fn_in.fn \in {"embed_colbert_packed", "embed_batch"} /\ fn_out.tag = "Ok") =>
        IsPackedIndex(PackedOut, fn_in.enc.hidden_size, Len(fn_in.texts))

\* C13 witness: a packed index of more than one chunk of documents.
C13_Witness ==
    /\ Ran("embed_colbert_packed")
    /\ fn_out.tag = "Ok"
    /\ Len(fn_in.texts) > BATCH_SIZE
    /\ Len(fn_out.value.offsets) = Len(fn_in.texts)
    /\ fn_out.value.offsets[BATCH_SIZE + 1] > fn_out.value.offsets[BATCH_SIZE]

\* the token ids of the i-th document (1-based) of the returned packed arrays
OutDocIds(i) == DocTokenIds(PackedOut, i - 1)

\* the subwords the tokenizer makes of the i-th text, its literal prefix
\* included when the encoder has no [D] marker id and the text does not
\* start with the marker
DocSubwords(i) ==
    (IF fn_in.enc.doc_marker_id = NoMarker /\ ~fn_in.texts[i].marked
     THEN DocPrefixIds ELSE <<>>) \o fn_in.texts[i].ids

DocHeadLen == IF fn_in.enc.doc_marker_id = NoMarker THEN 1 ELSE 2

\* C14: every document sequence starts with CLS, ends with SEP and has
\* between 2 and 96 tokens; between its head and SEP it holds the leading
\* subwords of the text, as many as fit, the rest dropped without an error.
C14_DocLengthBound ==
    (fn_in.fn \in {"embed_colbert_packed", "embed_batch"} /\ fn_out.tag = "Ok") =>
        \A i \in 1..Len(fn_in.texts) :
            LET ids == OutDocIds(i)
                n == Len(ids)
            IN  /\ PackedOut.lengths[i] = n
                /\ n >= 2
                /\ n <= DOC_MAXLEN
                /\ ids[1] = fn_in.enc.cls_id
                /\ ids[n] = fn_in.enc.sep_id
                /\ n = Min2(DOC_MAXLEN, DocHeadLen + Len(DocSubwords(i)) + 1)
                /\ SubSeq(ids, DocHeadLen + 1, n - 1)
                      = SubSeq(DocSubwords(i), 1, n - DocHeadLen - 1)

\* C14 witness: a text of more subwords than a document holds, packed into a
\* document of exactly 96 tokens that ends with SEP.
C14_Witness ==
    /\ Ran("embed_colbert_packed")
    /\ fn_out.tag = "Ok"
    /\ Len(fn_in.texts) = 2
    /\ Len(fn_in.texts[2].ids) > DOC_MAXLEN
    /\ fn_out.value.lengths[2] = DOC_MAXLEN
    /\ OutDocIds(2)[DOC_MAXLEN] = fn_in.enc.sep_id

(***************************************************************************)
(* SpecQuery: encode_query_colbert as a function of its input, once the    *)
(* encoder is held.                                                        *)
(***************************************************************************)
\* subword counts: none, one, around the budget of a query, far beyond it
QuerySubwordCounts ==
    {0, 1, 2 * QUERY_MAXLEN} \cup (QUERY_MAXLEN - 6)..(QUERY_MAXLEN + 1)

QueryCall(repo, hidden_size, query, session_ok) ==
    [fn |-> "encode_query_colbert",
     enc |-> ColbertEncoderOrt(repo, hidden_size),
     query |-> query,
     session_ok |-> session_ok]

QueryCalls ==
    {QueryCall(repo, h, LongText(n, marked), TRUE) :
        repo \in ColbertRepos, h \in HiddenSizes,
        n \in QuerySubwordCounts, marked \in BOOLEAN}
    \cup
    {QueryCall(repo, NarrowHidden, q, ok) :
        repo \in ColbertRepos, q \in {T1, TBad}, ok \in BOOLEAN}

\* what encode_query hands to the inference session
QuerySessionInputs(enc, text) ==
    LET final_ids == QueryFinalIds(enc, text)
    IN  [input_ids |-> final_ids,
         attention_mask |-> [i \in 1..Len(final_ids) |-> 1]]

\* the body of encode_query_colbert once it holds the encoder
EncodeQueryColbert(enc, query, session_ok) ==
    LET query_emb == encode_query(enc, query, session_ok)
    IN  IF ~query_emb.ok THEN Err(query_emb.err)
        ELSE Ok(query_emb.value.embeddings)

InitQuery ==
    /\ InitRegistry
    /\ fn_in \in QueryCalls
    /\ fn_out = NotRun

apply_encode_query_colbert ==
    /\ fn_in.fn = "encode_query_colbert"
    /\ fn_out = NotRun
    /\ fn_out' = Outcome(EncodeQueryColbert(fn_in.enc, fn_in.query, fn_in.session_ok))
    /\ UNCHANGED fn_in
    /\ UNCHANGED regvars

NextQuery == apply_encode_query_colbert

SpecQuery == InitQuery /\ [][NextQuery]_vars

(***************************************************************************)
(* Properties of query encoding, checked under SpecQuery.                  *)
(***************************************************************************)
\* the subwords the tokenizer makes of the query, its literal prefix included
\* when the encoder has no [Q] marker id and the text does not start with it
QuerySubwords ==
    (IF fn_in.enc.query_marker_id = NoMarker /\ ~fn_in.query.marked
     THEN QueryPrefixIds ELSE <<>>) \o fn_in.query.ids

QueryHead ==
    IF fn_in.enc.query_marker_id = NoMarker THEN <<fn_in.enc.cls_id>>
    ELSE <<fn_in.enc.cls_id, fn_in.enc.query_marker_id>>

\* CLS, the marker id if any, the subwords that fit, SEP, then MASK up to 32
ExpectedQueryIds ==
    LET kept == SubSeq(QuerySubwords, 1,
                       Min2(Len(QuerySubwords), QUERY_MAXLEN - Len(QueryHead) - 1))
        body == (QueryHead \o kept) \o <<fn_in.enc.sep_id>>
    IN  [i \in 1..QUERY_MAXLEN |->
            IF i <= Len(body) THEN body[i] ELSE fn_in.enc.mask_id]

\* C15: encode_query runs the session on exactly 32 token ids, CLS, the [Q]
\* marker id if there is one, the subwords that fit, one SEP, then MASK up to
\* position 32, with an attention mask of 32 ones, and returns exactly
\* 32 * hidden_size scalars: the normalized rows of those 32 positions.
C15_QueryShape ==
    (Ran("encode_query_colbert") /\ fn_out.tag = "Ok") =>
        LET inputs == QuerySessionInputs(fn_in.enc, fn_in.query)
        IN  /\ inputs.input_ids = ExpectedQueryIds
            /\ inputs.attention_mask = [i \in 1..QUERY_MAXLEN |-> 1]
            /\ Len(fn_out.value) = QUERY_MAXLEN * fn_in.enc.hidden_size
            /\ fn_out.value =
                  Flatten([s \in 1..QUERY_MAXLEN |->
                            L2Normalize(HiddenRow(ExpectedQueryIds[s], s - 1,
                                                  fn_in.enc.hidden_size))])

\* C15 witness: a one-subword query on the 48-wide encoder with a marker id,
\* returned as 1536 scalars.
C15_Witness ==
    /\ Ran("encode_query_colbert")
    /\ fn_out.tag = "Ok"
    /\ fn_in.enc.hidden_size = COLBERT_HIDDEN
    /\ fn_in.enc.query_marker_id # NoMarker
    /\ Len(fn_in.query.ids) = 1
    /\ Len(fn_out.value) = 1536

(***************************************************************************)
(* SpecQuant: the i8 round trip of one embedding vector.  The scalars are  *)
(* quantized where embed_colbert_packed packs them (lib.rs 122-125) and    *)
(* dequantized where rerank_colbert unpacks them (lib.rs 201-204).         *)
(***************************************************************************)
\* every scalar of the grid in [-1, 1], as a vector of one component
UnitScalars == {<<x>> : x \in (-FloatDen)..FloatDen}

\* scalars outside [-1, 1], which the clamp has to catch
WideScalars ==
    {<<x>> : x \in {-2 * FloatDen, -FloatDen - GridSteps, -FloatDen - 1,
                    FloatDen + 1, FloatDen + GridSteps, 2 * FloatDen}}

\* vectors of two components: the axes, the diagonal, and values next to a
\* multiple of 1/127 on either side
PairScalars ==
    {-FloatDen, -FloatDen + 1, -GridSteps - 1, -GridSteps + 1, -1, 0,
     1, GridSteps - 1, GridSteps + 1, FloatDen \div 2, FloatDen - 1, FloatDen}

QuantVectors ==
    UnitScalars \cup WideScalars
        \cup {<<x, y>> : x \in PairScalars, y \in PairScalars}

\* packed.embeddings.iter().map(|&x| ...).collect()
QuantizeAll(v) == [i \in 1..Len(v) |-> Quantize(v[i])]

\* doc_embeddings.iter().map(|&x| (x as f32) / 127.0).collect()
DequantizeAll_by_128(qs) == [i \in 1..Len(qs) |-> TruncDiv(qs[i] * FloatDen, 128)]

DequantizeAll(qs) == [i \in 1..Len(qs) |-> Dequantize(qs[i])]

InitQuant ==
    /\ InitRegistry
    /\ fn_in \in {[fn |-> "quantize", v |-> v] : v \in QuantVectors}
    /\ fn_out = NotRun

apply_quantize ==
    /\ fn_in.fn = "quantize"
    /\ fn_out = NotRun
    /\ fn_out' = [tag |-> "Quantized", q |-> QuantizeAll(fn_in.v)]
    /\ UNCHANGED fn_in
    /\ UNCHANGED regvars

apply_dequantize ==
    /\ fn_in.fn = "quantize"
    /\ fn_out # NotRun
    /\ fn_out.tag = "Quantized"
    /\ fn_out' = [tag |-> "Dequantized", q |-> fn_out.q,
                  value |-> DequantizeAll(fn_out.q)]
    /\ UNCHANGED fn_in
    /\ UNCHANGED regvars

NextQuant == apply_quantize \/ apply_dequantize

SpecQuant == InitQuant /\ [][NextQuant]_vars

(***************************************************************************)
(* Properties of the round trip, checked under SpecQuant.                  *)
(***************************************************************************)
Abs(x) == IF x < 0 THEN -x ELSE x

\* the vector went through both conversions
RoundTripped ==
    /\ fn_in.fn = "quantize"
    /\ fn_out # NotRun
    /\ fn_out.tag = "Dequantized"

\* every component of the input lies in [-1, 1]
InUnitBox == \A i \in 1..Len(fn_in.v) : Abs(fn_in.v[i]) <= FloatDen

\* |q/127 - x| of component i, over FloatDen
RoundTripError(i) == Abs(fn_out.value[i] - fn_in.v[i])

\* C16 as stated: for every scalar x in [-1, 1], the error |q/127 - x| of the
\* round trip is at most 1/254.
C16_ErrorAtMostHalfStep ==
    (RoundTripped /\ InUnitBox) =>
        \A i \in 1..Len(fn_in.v) : 2 * QUANT_SCALE * RoundTripError(i) <= FloatDen

\* C16: for every scalar x in [-1, 1], the error |q/127 - x| of the round
\* trip is at most 1/127.
C16_ErrorAtMostOneStep ==
    (RoundTripped /\ InUnitBox) =>
        \A i \in 1..Len(fn_in.v) : QUANT_SCALE * RoundTripError(i) <= FloatDen

\* C16 witness: a scalar just below 1/127 is quantized to 0, an error of
\* more than 1/254.
C16_Witness ==
    /\ RoundTripped
    /\ fn_in.v = <<GridSteps - 1>>
    /\ fn_out.q = <<0>>
    /\ 2 * QUANT_SCALE * RoundTripError(1) > FloatDen

\* the vector has been quantized, and perhaps dequantized again
Quantized ==
    /\ fn_in.fn = "quantize"
    /\ fn_out # NotRun
    /\ fn_out.tag \in {"Quantized", "Dequantized"}

\* C17: for every vector with components in [-1, 1], every quantized
\* component lies in [-127, 127], inside the range of an i8, and every
\* component of the dequantized vector is within 1/127 of the original.
C17_RoundTripWithinOneStep ==
    /\ (Quantized /\ InUnitBox) =>
            /\ Len(fn_out.q) = Len(fn_in.v)
            /\ \A i \in 1..Len(fn_in.v) :
                    fn_out.q[i] >= -QUANT_SCALE /\ fn_out.q[i] <= QUANT_SCALE
    /\ (RoundTripped /\ InUnitBox) =>
            /\ Len(fn_out.value) = Len(fn_in.v)
            /\ \A i \in 1..Len(fn_in.v) :
                    /\ fn_out.value[i] - fn_in.v[i] <= GridSteps
                    /\ fn_in.v[i] - fn_out.value[i] <= GridSteps

\* C17 witness: the vector (1, -1) is quantized to (127, -127), the ends of
\* the range, and comes back unchanged.
C17_Witness ==
    /\ RoundTripped
    /\ fn_in.v = <<FloatDen, -FloatDen>>
    /\ fn_out.q = <<QUANT_SCALE, -QUANT_SCALE>>
    /\ fn_out.value = fn_in.v

(***************************************************************************)
(* Properties of score_packed, checked under SpecRerank.                   *)
(***************************************************************************)
\* the number of tokens stored before document doc_idx
TokensBefore(packed, doc_idx) == SumRange(packed.lengths, 1, doc_idx)

\* document doc_idx has its entries in lengths and offsets, and its rows and
\* token ids inside the arrays
SliceInside(packed, doc_idx) ==
    /\ doc_idx < Len(packed.lengths)
    /\ doc_idx < Len(packed.offsets)
    /\ At(packed.offsets, doc_idx) >= 0
    /\ At(packed.lengths, doc_idx) >= 0
    /\ At(packed.offsets, doc_idx) + At(packed.lengths, doc_idx) * packed.hidden_size
          <= Len(packed.embeddings)
    /\ TokensBefore(packed, doc_idx) + At(packed.lengths, doc_idx)
          <= Len(packed.token_ids)

\* document doc_idx cut out of the index: the lengths[i] rows that start at
\* offsets[i] and the lengths[i] token ids that start at the sum of
\* lengths[0..i), as an index of one document
DocSlice(packed, doc_idx) ==
    LET doc_len == At(packed.lengths, doc_idx)
        emb_offset == At(packed.offsets, doc_idx)
        tok_offset == TokensBefore(packed, doc_idx)
    IN  [embeddings |-> Slice(packed.embeddings, emb_offset,
                              emb_offset + doc_len * packed.hidden_size),
         token_ids |-> Slice(packed.token_ids, tok_offset, tok_offset + doc_len),
         lengths |-> <<doc_len>>,
         offsets |-> <<0>>,
         hidden_size |-> packed.hidden_size]

\* the j-th score is the score of the j-th candidate cut out of the index
ScoredFromSlice(enc, query_emb, packed, candidates, scores) ==
    \A j \in 1..Len(candidates) :
        SliceInside(packed, candidates[j]) =>
            scores[j] = ScoreDoc(enc, query_emb, DocSlice(packed, candidates[j]), 0)

\* C18: score_packed returns one score per entry of doc_indices, in the order
\* of doc_indices, a repeated entry scored each time; the score of document i
\* is the score of the lengths[i] rows at offsets[i] with the token ids that
\* start at the sum of lengths[0..i), whatever else the index holds; and the
\* entries the call returns pair each index with its score.
C18_ScorePerCandidate ==
    (fn_out.tag = "Ok") =>
        With(CandidateScores,
             LAMBDA scores :
                /\ DOMAIN scores = 1..Len(RankedCandidates)
                /\ With(<<RankedQuery, RankedIndex>>,
                        LAMBDA qp :
                          ScoredFromSlice(fn_in.enc, qp[1], qp[2],
                                          RankedCandidates, scores))
                /\ Len(fn_out.indices) = Min2(RankedTopK, Len(RankedCandidates))
                /\ \A p \in 1..Len(fn_out.indices) :
                      \E j \in 1..Len(RankedCandidates) :
                          /\ RankedCandidates[j] = fn_out.indices[p]
                          /\ scores[j] = fn_out.scores[p])

\* C18 witness: candidates <<2, 1, 2>>, document 2 twice, ranked whole: three
\* entries come back, document 2 twice with the score of its own slice,
\* which lies behind the rows and token ids of documents 0 and 1.
C18_Witness ==
    /\ Ran("rerank_colbert")
    /\ fn_out.tag = "Ok"
    /\ fn_in.in.candidate_indices = <<2, 1, 2>>
    /\ fn_in.in.top_k = MaxCandidates + 1
    /\ SliceInside(RankedIndex, 2)
    /\ TokensBefore(RankedIndex, 2) > 0
    /\ At(fn_in.in.doc_offsets, 2) = TokensBefore(RankedIndex, 2) * RERANK_HIDDEN
    /\ fn_out.indices = <<1, 2, 2>>
    /\ fn_out.scores[2] = fn_out.scores[3]
    /\ fn_out.scores[2] < 0
    /\ fn_out.scores[1] > 0

\* the entries of s that satisfy Test, counted with their repetitions
CountOf(s, Test(_)) == Cardinality({i \in 1..Len(s) : Test(s[i])})

\* C20: a candidate index at or beyond the number of stored documents is no
\* error: it is scored 0, stays among the candidates, none of them lost when
\* the whole list is returned, and comes back before every stored document
\* whose score is negative.
C20_OutOfRangeScoresZero ==
    (fn_out.tag = "Ok") =>
        With(Len(RankedIndex.lengths),
             LAMBDA N :
                /\ \A j \in 1..Len(RankedCandidates) :
                      RankedCandidates[j] >= N
                          => ScoreDoc(fn_in.enc, RankedQuery, RankedIndex,
                                      RankedCandidates[j]) = 0
                /\ \A p \in 1..Len(fn_out.indices) :
                      fn_out.indices[p] >= N => fn_out.scores[p] = 0
                /\ RankedTopK >= Len(RankedCandidates)
                      => \A c \in {RankedCandidates[j] : j \in 1..Len(RankedCandidates)} :
                            c >= N => CountOf(fn_out.indices, LAMBDA x : x = c)
                                        = CountOf(RankedCandidates, LAMBDA x : x = c)
                /\ \A r \in 1..Len(fn_out.indices) :
                      (fn_out.indices[r] < N /\ fn_out.scores[r] < 0)
                          => CountOf(SubSeq(fn_out.indices, 1, r - 1), LAMBDA x : x >= N)
                               = CountOf(RankedCandidates, LAMBDA x : x >= N))

\* C20 witness: candidates <<2, 4, 3>> against four stored documents: index 4
\* comes back with score 0, before document 2, whose score is negative.
C20_Witness ==
    /\ Ran("rerank_colbert")
    /\ fn_out.tag = "Ok"
    /\ Len(fn_in.in.doc_lengths) = 4
    /\ fn_in.in.candidate_indices = <<2, 4, 3>>
    /\ \E p, r \in 1..Len(fn_out.indices) :
          /\ p < r
          /\ fn_out.indices[p] = 4
          /\ fn_out.scores[p] = 0
          /\ fn_out.indices[r] = 2
          /\ fn_out.scores[r] < 0

(***************************************************************************)
(* SpecFair: Spec under fair scheduling.  A thread inside a call keeps     *)
(* running: each step that is not a wait for a lock is taken once it stays *)
(* possible (inference terminates), and a thread waiting for a lock gets   *)
(* it if the lock is free again and again.  Nothing obliges the host to    *)
(* make a call.                                                            *)
(***************************************************************************)
\* the steps of thread t inside a call, the waits for a lock apart
RunSteps(t) ==
    \/ init_dense_get(t) \/ init_dense_load(t) \/ init_dense_set(t)
    \/ init_colbert_get(t) \/ init_colbert_load(t) \/ init_colbert_set(t)
    \/ dense_get(t) \/ dense_encode(t) \/ dense_infer(t)
    \/ colbert_get(t) \/ colbert_encode(t)
    \/ query_get(t) \/ query_encode(t)
    \/ rerank_get(t) \/ rerank_score(t)

\* model.lock() of thread t
LockSteps(t) ==
    dense_lock(t) \/ colbert_lock(t) \/ query_lock(t) \/ rerank_lock(t)

FairScheduling ==
    \A t \in Threads : WF_vars(RunSteps(t)) /\ SF_vars(LockSteps(t))

SpecFair == Init /\ [][Next]_vars /\ FairScheduling

(***************************************************************************)
(* Properties of the two locks, checked under SpecFair.                    *)
(***************************************************************************)
\* no thread holds the dense lock and the late-interaction lock together
NoCallHoldsBothLocks ==
    \A t \in Threads : ~(dense_mutex.holder = t /\ colbert_mutex.holder = t)

\* a held lock is held by a thread inside the encoder, which needs no lock
\* to go on: no thread waits for a lock whose holder waits in turn
NoHolderWaits ==
    /\ dense_mutex.holder # NoHolder => pc[dense_mutex.holder] \in DenseInside
    /\ colbert_mutex.holder # NoHolder => pc[colbert_mutex.holder] \in ColbertInside

InCall(t) == pc[t] # "idle"

\* every call in flight returns, unless the process has aborted
EveryCallReturnsOrAborts ==
    \A t \in Threads : InCall(t) ~> (~InCall(t) \/ aborted)

\* C19: no call holds both locks at once, no lock is held by a call that
\* waits for a lock, and under fair scheduling every call in flight
\* eventually returns.
C19_NoDeadlockEveryCallReturns ==
    /\ [](NoCallHoldsBothLocks /\ NoHolderWaits)
    /\ \A t \in Threads : InCall(t) ~> ~InCall(t)

(***************************************************************************)
(* Properties of a failed load in init_models, checked under Spec.         *)
(***************************************************************************)
\* the registry: both slots and their locks
Slots == <<DENSE_MODEL, COLBERT_MODEL, dense_mutex, colbert_mutex>>

\* the step of thread t is the return of init_models from its failed load at
\* `label`
LoadFails(t, label) ==
    /\ pc[t] = label
    /\ pc'[t] = "idle"

\* C21: a dense load that fails ends init_models there and then, with the load
\* error and with no step toward the late-interaction load; it changes neither
\* slot, so is_initialized is what it was, and false while the dense slot is
\* empty; a call that finds the dense slot empty goes to load it, whatever
\* calls have failed before; a late-interaction load that fails ends the call
\* with the load error and leaves both slots alone, the dense slot populated.
C21_Step ==
    \A t \in Threads :
        /\ (pc[t] = "init_dense_load" /\ Moves(t)) =>
              /\ UNCHANGED Slots
              /\ \/ pc'[t] = "init_dense_set"
                 \/ /\ LoadFails(t, "init_dense_load")
                    /\ ret'[t] = "LoadFailed"
                    /\ is_initialized' = is_initialized
                    /\ DENSE_MODEL = <<>> => ~is_initialized'
        /\ (pc[t] = "init_colbert_load" /\ Moves(t)) =>
              /\ UNCHANGED Slots
              /\ DENSE_MODEL' # <<>>
              /\ \/ pc'[t] = "init_colbert_set"
                 \/ /\ LoadFails(t, "init_colbert_load")
                    /\ ret'[t] = "LoadFailed"
                    /\ ~is_initialized' \/ COLBERT_MODEL # <<>>
        /\ (pc[t] = "init_dense_get" /\ Moves(t) /\ DENSE_MODEL = <<>>
              /\ \E u \in Threads : ret[u] = "LoadFailed") =>
              pc'[t] = "init_dense_load"

C21_LoadFailureLeavesSlots == [][C21_Step]_vars

\* C21 witness: the call of thread 1 has returned the load error, both slots
\* are empty, so it was its dense load that failed and is_initialized is
\* false, and the call of thread 2 is at the dense load again.
C21_Witness ==
    /\ pc[1] = "idle" /\ ret[1] = "LoadFailed"
    /\ DENSE_MODEL = <<>> /\ COLBERT_MODEL = <<>>
    /\ ~is_initialized
    /\ pc[2] = "init_dense_load"

====
